---- MODULE Spec2Model ----
(***************************************************************************)
(* Terminal gateway (webxterm): protocol adapters (SSH, Telnet, serial,    *)
(* local PTY), the per-session output queue, the ConnectionManager table   *)
(* and the WebSocket bridge of app/api/connections.py.                     *)
(*                                                                         *)
(* A session object is a record; every adapter method is an operator from  *)
(* a record to a record, so that code which runs without reaching an await *)
(* composes into one atomic step, and every await that really suspends is  *)
(* a label in closePc or in a task's pc.                                   *)
(***************************************************************************)
EXTENDS Integers, Sequences, FiniteSets, TLC

\* ---------------------------------------------------------------- bounds
MaxChunks == 3        \* chunks a session's read loop produces in one run
MaxCloseCalls == 3    \* close() calls the driver of Spec makes per session
MaxSends == 2         \* send_data / send_raw_data / resize_terminal calls per session

\* ------------------------------------------------------ program constants
QueueMaxsize == 0     \* asyncio.Queue() is built without maxsize: 0 means no limit

Sess == {"s1", "s2"}
Kinds == {"ssh", "telnet", "serial", "local"}
Effects ==
    {"logout", "channel_close", "client_close", "writer_close", "fd_close",
     "slave_close", "kill", "waitpid"}
SendOps == {"send_data", "send_raw_data", "resize_terminal"}

VARIABLES
    sess,              \* Sess -> session record (the protocol object and its ghosts)
    driver,            \* Sess -> pc of the direct caller used by Spec
    connections,       \* ConnectionManager.connections: id -> entry
    connection_stats,  \* ConnectionManager.connection_stats
    rm,                \* caller -> frame of its remove_connection call
    reg,               \* ghosts of the registry
    bridge,            \* the websocket_endpoint coroutine and its two tasks
    login              \* the connect() call in progress and its login automaton

vars == <<sess, driver, connections, connection_stats, rm, reg, bridge, login>>
regVars == <<connections, connection_stats, rm, reg>>

\* ------------------------------------------------------------ the session
\* ConnectionProtocol.__init__ plus the subclass constructors: nothing is
\* open, nothing runs.  kind "none" is a slot no object was built in.
\*   peer        what the remote end has done: "up", "eof", "reset"
\*   open        transport resources this process holds
\*   reader      the background read thread/task: none, running, closing, done
\*   queue       _output_queue;  pending: run_coroutine_threadsafe submissions
\*   gen         the read_output generator: none, active, ended
\*   faults      the calls that raise when this object makes them
\* ghosts: produced, delivered, closeCalls, closeNo, fx, fxBy, lastCall
Constructed(k) ==
    [kind |-> k, connected |-> FALSE, closed |-> FALSE,
     ssh_client |-> FALSE, channel |-> FALSE, writer |-> FALSE,
     master_fd |-> FALSE, slave_fd |-> FALSE, pid |-> FALSE, faults |-> {},
     stop_reading |-> FALSE,
     authentication_failed |-> FALSE, last_error |-> "none",
     reader |-> "none", open |-> {}, peer |-> "up",
     queue |-> <<>>, pending |-> <<>>, gen |-> "none",
     closePc |-> "none", closeOwner |-> "none",
     produced |-> 0, delivered |-> <<>>,
     closeCalls |-> 0, closeNo |-> 0,
     fx |-> [e \in Effects |-> 0], fxBy |-> {},
     sends |-> 0,
     lastCall |-> [op |-> "none", wasClosed |-> FALSE, attempted |-> FALSE, result |-> "none"]]

\* The state connect() leaves on its success path, per adapter.
Connected(k) ==
    LET r == Constructed(k) IN
    CASE k = "ssh" ->
           [r EXCEPT !.ssh_client = TRUE, !.channel = TRUE, !.connected = TRUE,
                     !.reader = "running", !.open = {"channel", "client"}]
      [] k = "telnet" ->
           [r EXCEPT !.writer = TRUE, !.connected = TRUE,
                     !.reader = "running", !.open = {"writer"}]
      [] k = "serial" ->
           [r EXCEPT !.writer = TRUE, !.connected = TRUE,
                     !.reader = "running", !.open = {"writer"}]
      [] k = "local" ->
           [r EXCEPT !.master_fd = TRUE, !.pid = TRUE, !.connected = TRUE,
                     !.reader = "running", !.open = {"master_fd", "child"}]

\* A teardown side effect e performed by the close() call in progress.
Fx(r, e) == [r EXCEPT !.fx[e] = @ + 1, !.fxBy = @ \cup {r.closeNo}]

Release(r, res) == [r EXCEPT !.open = @ \ {res}]

\* What a caller can observe of the object (everything but the ghosts and
\* the relay contents).
Observable(r) ==
    [connected |-> r.connected, closed |-> r.closed, ssh_client |-> r.ssh_client,
     channel |-> r.channel, writer |-> r.writer, master_fd |-> r.master_fd,
     pid |-> r.pid, open |-> r.open, reader |-> r.reader]

\* ------------------------------------------------------------------ close
\* `if self.closed: return`, the first statement of all four close().
CloseGuardNoCheck(r) == FALSE

CloseGuard(r) == r.closed

\* SSHProtocol.close after the guard.  It contains no await: join() blocks
\* the event loop for at most one second; joined says whether the thread
\* exited within that second.
SSHCloseBody(r, joined) ==
    LET r1 == [r EXCEPT !.closed = TRUE, !.stop_reading = TRUE]
        r2 == IF r1.reader = "running" /\ joined
              THEN [r1 EXCEPT !.reader = "done"] ELSE r1
        r3 == IF r2.channel THEN Release(Fx(r2, "channel_close"), "channel") ELSE r2
        r4 == IF r3.ssh_client THEN Release(Fx(r3, "client_close"), "client") ELSE r3
    IN [r4 EXCEPT !.connected = FALSE, !.closePc = "none", !.closeOwner = "none"]

\* TelnetProtocol.close, step 4 (also the except branch): drop the references.
TelnetCloseFinal(r) ==
    [r EXCEPT !.writer = FALSE, !.reader = IF @ = "none" THEN "none" ELSE "done",
              !.closePc = "none", !.closeOwner = "none"]

\* TelnetProtocol.close, step 3: writer.close() unless it is closing, then
\* wait_closed() for at most two seconds.
TelnetCloseWriter(r) ==
    IF r.writer
    THEN LET r1 == IF "writer" \in r.open
                   THEN Release(Fx(r, "writer_close"), "writer") ELSE r
         IN [r1 EXCEPT !.closePc = "t_final"]
    ELSE TelnetCloseFinal(r)

\* TelnetProtocol.close, step 2: cancel the read task and wait for it for at
\* most one second; with no live task the code falls through to step 3.
TelnetCloseCancel(r) ==
    IF r.reader = "running"
    THEN [r EXCEPT !.reader = "done", !.closePc = "t_writer"]
    ELSE TelnetCloseWriter(r)

\* TelnetProtocol.close after the guard, up to its first await: the flags,
\* then step 1, the logout commands (each followed by a sleep).
TelnetCloseBody(r, o) ==
    LET r1 == [r EXCEPT !.closed = TRUE, !.connected = FALSE, !.closeOwner = o] IN
    IF r1.writer /\ "writer" \in r1.open
    THEN [Fx(r1, "logout") EXCEPT !.closePc = "t_cancel"]
    ELSE TelnetCloseCancel(r1)

\* SerialProtocol.close: closing the writer, after the read task was awaited.
SerialCloseWriter(r) ==
    LET r1 == IF r.writer THEN Release(Fx(r, "writer_close"), "writer") ELSE r
    IN [r1 EXCEPT !.closePc = "none", !.closeOwner = "none"]

\* SerialProtocol.close after the guard: flags, cancel and await the task.
SerialCloseBody(r, o) ==
    LET r1 == [r EXCEPT !.closed = TRUE, !.connected = FALSE, !.closeOwner = o] IN
    IF r1.reader = "running"
    THEN [r1 EXCEPT !.reader = "done", !.closePc = "s_writer"]
    ELSE SerialCloseWriter(r1)

\* os.kill and os.waitpid(WNOHANG) of LocalProtocol.close: one try holds
\* both, so a kill that raises leaves the waitpid out.
KillAndReap(r) ==
    IF "kill" \in r.faults THEN Fx(r, "kill") ELSE Fx(Fx(r, "kill"), "waitpid")

\* LocalProtocol.close: descriptors and child, after the reader was awaited.
\* slave_fd is None in the parent once connect() has forked.  r.faults names
\* the system calls that raise; each field is set to None after its try.  A
\* reader that called close() itself ends when close() returns to it.
LocalCloseFds(r) ==
    LET r1 == IF r.master_fd
              THEN [Release(Fx(r, "fd_close"), "master_fd") EXCEPT !.master_fd = FALSE]
              ELSE r
        r2 == IF r1.slave_fd
              THEN [Release(Fx(r1, "slave_close"), "slave_fd") EXCEPT !.slave_fd = FALSE]
              ELSE r1
        r3 == IF r2.pid
              THEN [Release(KillAndReap(r2), "child") EXCEPT !.pid = FALSE]
              ELSE r2
    IN [r3 EXCEPT !.closePc = "none", !.closeOwner = "none",
                  !.reader = IF @ = "closing" THEN "done" ELSE @]

\* LocalProtocol.close after the guard: flags, cancel and await reader_task.
\* Called by the reader itself the task is not done either: it cancels and
\* awaits itself, and resumes with the CancelledError it then swallows.
LocalCloseBody(r, o) ==
    LET r1 == [r EXCEPT !.closed = TRUE, !.connected = FALSE, !.closeOwner = o] IN
    IF r1.reader \in {"running", "closing"}
    THEN [r1 EXCEPT !.reader = IF @ = "running" THEN "done" ELSE @, !.closePc = "l_fds"]
    ELSE LocalCloseFds(r1)

\* close() called by owner o, run up to its first suspension (closePc says
\* where) or to its return (closePc = "none").
CloseStart(r, o, joined) ==
    LET r0 == [r EXCEPT !.closeCalls = @ + 1] IN
    IF CloseGuard(r0) THEN r0
    ELSE LET r1 == [r0 EXCEPT !.closeNo = r0.closeCalls] IN
         CASE r.kind = "ssh"    -> SSHCloseBody(r1, joined)
           [] r.kind = "telnet" -> TelnetCloseBody(r1, o)
           [] r.kind = "serial" -> SerialCloseBody(r1, o)
           [] r.kind = "local"  -> LocalCloseBody(r1, o)

\* The suspended close() resumed, run to its next suspension or its return.
CloseResume(r) ==
    CASE r.closePc = "t_cancel" -> TelnetCloseCancel(r)
      [] r.closePc = "t_writer" -> TelnetCloseWriter(r)
      [] r.closePc = "t_final"  -> TelnetCloseFinal(r)
      [] r.closePc = "s_writer" -> SerialCloseWriter(r)
      [] r.closePc = "l_fds"    -> LocalCloseFds(r)

\* A close() that has set the flags and is suspended has not returned.
\* A second caller finds closed = TRUE and returns at once, so at most one
\* close() per session is ever suspended.
CloseReturned(r) == r.closePc = "none"

\* ------------------------------------------------------------- the relay
\* asyncio.Queue.full(): a queue built with maxsize <= 0 is never full.
QueueFull(q) == QueueMaxsize > 0 /\ Len(q) >= QueueMaxsize

\* _queue_output can run to its end: put() suspends the producer on a full
\* queue, and is not reached at all on a closed session.
PutEnabled(r) == r.closed \/ ~QueueFull(r.queue)

\* ConnectionProtocol._queue_output
QueueOutputUnguarded(r, d) == [r EXCEPT !.queue = Append(@, d)]

QueueOutput(r, d) == IF ~r.closed THEN [r EXCEPT !.queue = Append(@, d)] ELSE r

\* One iteration of ConnectionProtocol.read_output: the generator ends on a
\* closed session, else yields the oldest chunk.  (On an empty queue it waits
\* a second and tests closed again: no step.)
ReadOutputEnabledOnData(r) == r.gen # "ended" /\ r.queue # <<>>

ReadOutputEnabled(r) == r.gen # "ended" /\ (r.closed \/ r.queue # <<>>)

ReadOutput(r) ==
    IF r.closed THEN [r EXCEPT !.gen = "ended"]
    ELSE [r EXCEPT !.gen = "active", !.queue = Tail(@),
                   !.delivered = Append(@, Head(r.queue))]

\* ------------------------------------------------------- the read loops
\* The submission the event loop runs next.  run_coroutine_threadsafe puts
\* each _queue_output coroutine on the loop's ready list, which is FIFO.
HandoffIndexLast(p) == Len(p)

HandoffIndex(p) == 1

DropAt(p, i) == [j \in 1..(Len(p) - 1) |-> IF j < i THEN p[j] ELSE p[j + 1]]

\* The while condition of SSHProtocol._read_output_thread.
SSHLoopCond(r) == ~r.stop_reading /\ r.channel /\ "channel" \in r.open

\* SSH thread: recv() returned data; it is decoded and submitted to the loop.
SSHThreadRecv(r) ==
    [r EXCEPT !.pending = Append(@, r.produced + 1), !.produced = @ + 1]

\* SSH thread: the loop ends (condition false, EOF, exit status, reset, any
\* error) and the last statement marks the session closed.
SSHThreadExit(r) ==
    [r EXCEPT !.connected = IF r.peer = "reset" THEN FALSE ELSE @,
              !.last_error = IF r.peer = "reset" THEN "read" ELSE @,
              !.closed = TRUE, !.reader = "done"]

\* The event loop runs one submitted _queue_output coroutine.
SSHHandoff(r) ==
    LET i == HandoffIndex(r.pending) IN
    QueueOutput([r EXCEPT !.pending = DropAt(@, i)], r.pending[i])

\* Telnet _read_output_async, a chunk with no error pattern in it.
TelnetReadData(r) == QueueOutput([r EXCEPT !.produced = @ + 1], r.produced + 1)

\* Telnet _read_output_async, a chunk in which _check_data_for_auth_errors
\* finds a login-failure or connection-refused pattern: the loop breaks.
TelnetReadAuthError(r) ==
    [r EXCEPT !.authentication_failed = TRUE, !.connected = FALSE,
              !.closed = TRUE, !.reader = "done"]

\* Telnet _read_output_async ends: EOF, reset, or any error and the finally.
TelnetReadEnd(r) == [r EXCEPT !.connected = FALSE, !.closed = TRUE, !.reader = "done"]

\* Serial _read_output, a chunk.
SerialReadData(r) == QueueOutput([r EXCEPT !.produced = @ + 1], r.produced + 1)

\* Serial _read_output ends (EOF or error): the finally sets closed only.
SerialReadEnd(r) == [r EXCEPT !.closed = TRUE, !.reader = "done"]

\* Local _read_from_pty, a chunk.
LocalReadData(r) == QueueOutput([r EXCEPT !.produced = @ + 1], r.produced + 1)

\* Local _read_from_pty ends (EIO or error) and awaits self.close().
LocalReadEnd(r) == CloseStart([r EXCEPT !.reader = "closing"], "reader", FALSE)

CanReadData(r) ==
    /\ r.reader = "running" /\ r.peer = "up" /\ r.produced < MaxChunks
    /\ CASE r.kind = "ssh"    -> SSHLoopCond(r)
         [] r.kind = "telnet" -> ~r.closed /\ PutEnabled(r)
         [] r.kind = "serial" -> r.connected /\ ~r.closed /\ PutEnabled(r)
         [] r.kind = "local"  -> r.connected /\ ~r.closed /\ PutEnabled(r)
         [] OTHER -> FALSE

ReadData(r) ==
    CASE r.kind = "ssh"    -> SSHThreadRecv(r)
      [] r.kind = "telnet" -> TelnetReadData(r)
      [] r.kind = "serial" -> SerialReadData(r)
      [] r.kind = "local"  -> LocalReadData(r)

CanReadEnd(r) ==
    /\ r.reader = "running"
    /\ \/ r.peer # "up"
       \/ r.kind = "ssh" /\ ~SSHLoopCond(r)

ReadEnd(r) ==
    CASE r.kind = "ssh"    -> SSHThreadExit(r)
      [] r.kind = "telnet" -> TelnetReadEnd(r)
      [] r.kind = "serial" -> SerialReadEnd(r)
      [] r.kind = "local"  -> LocalReadEnd(r)

\* ---------------------------------------------- send_data, resize_terminal
\* The not-connected test at the top of send_data and send_raw_data (and of
\* the SSH and Telnet resize_terminal).
NotConnected(r) ==
    CASE r.kind = "ssh"   -> ~r.connected \/ ~r.channel
      [] r.kind = "local" -> ~r.connected \/ ~r.master_fd
      [] OTHER            -> ~r.connected \/ ~r.writer

PrimaryOpen(r) ==
    CASE r.kind = "ssh"   -> "channel" \in r.open
      [] r.kind = "local" -> "master_fd" \in r.open
      [] OTHER            -> "writer" \in r.open

\* What a write to the transport can do in the state the transport is in.
Outcomes(r) ==
    (IF PrimaryOpen(r) /\ r.peer # "reset" THEN {"ok"} ELSE {})
      \cup (IF r.peer = "reset" THEN {"reset"} ELSE {})
      \cup (IF r.peer # "up" \/ ~PrimaryOpen(r) THEN {"error"} ELSE {})

Called(r, op, att, res) ==
    [r EXCEPT !.sends = @ + 1,
              !.lastCall = [op |-> op, wasClosed |-> r.closed,
                            attempted |-> att, result |-> res]]

\* `self._last_error = ...` in the except clauses of the SSH adapter's
\* send_data, send_raw_data and resize_terminal; no other adapter's send or
\* read loop stores one.
StoreError(r, what) == IF r.kind = "ssh" THEN [r EXCEPT !.last_error = what] ELSE r

MarkResetReopens(r) == [r EXCEPT !.connected = FALSE, !.closed = FALSE]
MarkReset(r) == [r EXCEPT !.connected = FALSE, !.closed = TRUE]

\* send_data / send_raw_data of the four adapters, called by o; out is what
\* the transport does with the write.
SendSerialKeepsOpen(r, op, out, o) ==
    IF NotConnected(r)
    THEN Called(r, op, FALSE, IF r.kind = "local" THEN "noop" ELSE "not_connected")
    ELSE IF out = "ok" THEN Called(r, op, TRUE, "ok")
    ELSE CASE r.kind = "local" -> CloseStart(Called(r, op, TRUE, "closed"), o, FALSE)
           [] OTHER -> IF out = "reset"
                       THEN MarkReset(StoreError(Called(r, op, TRUE, "raised"), "send"))
                       ELSE StoreError(Called(r, op, TRUE, "raised"), "send")

Send(r, op, out, o) ==
    IF NotConnected(r)
    THEN Called(r, op, FALSE, IF r.kind = "local" THEN "noop" ELSE "not_connected")
    ELSE IF out = "ok" THEN Called(r, op, TRUE, "ok")
    ELSE CASE r.kind = "local" -> CloseStart(Called(r, op, TRUE, "closed"), o, FALSE)
           [] r.kind = "serial" -> MarkReset(Called(r, op, TRUE, "raised"))
           [] OTHER -> IF out = "reset"
                       THEN MarkReset(StoreError(Called(r, op, TRUE, "raised"), "send"))
                       ELSE StoreError(Called(r, op, TRUE, "raised"), "send")

\* resize_terminal of the four adapters.  Telnet sends nothing (NAWS is
\* commented out), serial is `pass`, local tests master_fd only.
ResizeTelnetNaws(r, out) ==
    CASE r.kind \in {"ssh", "telnet"} ->
           IF NotConnected(r) THEN Called(r, "resize_terminal", FALSE, "noop")
           ELSE IF out = "reset"
                THEN MarkReset(StoreError(Called(r, "resize_terminal", TRUE, "logged"), "resize"))
           ELSE Called(r, "resize_terminal", TRUE, IF out = "ok" THEN "ok" ELSE "logged")
      [] r.kind = "local" ->
           IF r.master_fd THEN Called(r, "resize_terminal", TRUE, "ok")
           ELSE Called(r, "resize_terminal", FALSE, "noop")
      [] OTHER -> Called(r, "resize_terminal", FALSE, "noop")

Resize(r, out) ==
    CASE r.kind = "ssh" ->
           IF NotConnected(r) THEN Called(r, "resize_terminal", FALSE, "noop")
           ELSE IF out = "reset"
                THEN MarkReset(StoreError(Called(r, "resize_terminal", TRUE, "logged"), "resize"))
           ELSE Called(r, "resize_terminal", TRUE, IF out = "ok" THEN "ok" ELSE "logged")
      [] r.kind = "local" ->
           IF r.master_fd THEN Called(r, "resize_terminal", TRUE, "ok")
           ELSE Called(r, "resize_terminal", FALSE, "noop")
      [] OTHER -> Called(r, "resize_terminal", FALSE, "noop")

SendCall(r, op, out, o) ==
    IF op = "resize_terminal" THEN Resize(r, out) ELSE Send(r, op, out, o)

\* A caller whose call just ran: suspended inside close() or back in its code.
Suspended(r, o) == r.closePc # "none" /\ r.closeOwner = o

\* ------------------------------------------------------------ the registry
Ids == {"x", "y"}
Callers == {"t1", "t2", "sweep", "ws"}

NoEntries == [i \in {} |-> 0]
IdleFrame == [pc |-> "idle", id |-> "none", conn |-> "none", todo |-> <<>>, n |-> 0]
NoCall == [op |-> "none", id |-> "none", result |-> "none", by |-> "none", n |-> 0]

\* ConnectionManager.__init__; `order` is the insertion order of the dict,
\* `now` the clock datetime.utcnow() reads.  The other fields of reg are
\* ghosts: what was added and removed, and the last call's result.
RegistryInit ==
    /\ connections = NoEntries
    /\ connection_stats = [total_connections |-> 0, active_connections |-> 0]
    /\ rm = [c \in Callers |-> IdleFrame]
    /\ reg = [now |-> 0, order |-> <<>>, addedAs |-> NoEntries, removed |-> {},
              last |-> NoCall]

\* `connection_id in self.connections`, the test of get_connection.
InTable(tbl, id) == id \in DOMAIN tbl

\* `if connection_id in self.connections:`, the test of remove_connection.
RegisteredAlways(tbl, id) == TRUE

Registered(tbl, id) == id \in DOMAIN tbl

\* `self.connections[connection_id] = {...}`
StoreEntry(tbl, id, e) == [i \in DOMAIN tbl \cup {id} |-> IF i = id THEN e ELSE tbl[i]]

\* `del self.connections[connection_id]` on a key that is present.
DeleteEntryKeeps(tbl, id) == tbl

DeleteEntry(tbl, id) == [i \in DOMAIN tbl \ {id} |-> tbl[i]]

\* The five variables a registry call reads and writes, as one value, so
\* that the calls compose: remove_connection calls close(), the sweep calls
\* remove_connection in a loop, and whatever reaches no await is one step.
World ==
    [sess |-> sess, connections |-> connections,
     connection_stats |-> connection_stats, rm |-> rm, reg |-> reg]

SetWorld(w) ==
    /\ sess' = w.sess
    /\ connections' = w.connections
    /\ connection_stats' = w.connection_stats
    /\ rm' = w.rm
    /\ reg' = w.reg

\* The dict's key order once id is deleted.
Without(order, id) == SelectSeq(order, LAMBDA i : i # id)

\* ConnectionManager.add_connection
AddConnectionUncounted(w, id, s) ==
    [w EXCEPT !.connections = StoreEntry(@, id, [connection |-> s, last_activity |-> w.reg.now]),
              !.connection_stats.active_connections = @ + 1,
              !.reg.order = IF InTable(w.connections, id) THEN @ ELSE Append(@, id),
              !.reg.addedAs = StoreEntry(@, id, s),
              !.reg.removed = @ \ {id},
              !.reg.last = [NoCall EXCEPT !.op = "add"]]

AddConnection(w, id, s) ==
    [w EXCEPT !.connections = StoreEntry(@, id, [connection |-> s, last_activity |-> w.reg.now]),
              !.connection_stats.total_connections = @ + 1,
              !.connection_stats.active_connections = @ + 1,
              !.reg.order = IF InTable(w.connections, id) THEN @ ELSE Append(@, id),
              !.reg.addedAs = StoreEntry(@, id, s),
              !.reg.removed = @ \ {id},
              !.reg.last = [NoCall EXCEPT !.op = "add"]]

\* ConnectionManager.get_connection
GetConnection(w, id) ==
    IF InTable(w.connections, id)
    THEN [w EXCEPT !.connections[id].last_activity = w.reg.now,
                   !.reg.last = [NoCall EXCEPT !.op = "get", !.id = id,
                                               !.result = w.connections[id].connection]]
    ELSE [w EXCEPT !.reg.last = [NoCall EXCEPT !.op = "get", !.id = id, !.result = "none"]]

\* `await connection.close()` of remove_connection ended with an Exception:
\* the object's close() is one that raises.
CloseRaises(r) == "close" \in r.faults

\* remove_connection with no handler around close(): the exception leaves
\* the call before `del`.
RemoveFinishPropagates(w, c) ==
    LET id == w.rm[c].id IN
    IF CloseRaises(w.sess[w.rm[c].conn])
    THEN [w EXCEPT !.reg.last = [NoCall EXCEPT !.op = "remove", !.id = id, !.by = c,
                                               !.result = "close_error"],
                   !.rm[c].pc = "raised"]
    ELSE IF id \in DOMAIN w.connections
    THEN [w EXCEPT !.connections = DeleteEntry(@, id),
                   !.connection_stats.active_connections = @ - 1,
                   !.reg.removed = @ \cup {id},
                   !.reg.order = Without(@, id),
                   !.reg.last = [NoCall EXCEPT !.op = "remove", !.id = id, !.by = c,
                                               !.result = "removed"],
                   !.rm[c].pc = "returned"]
    ELSE [w EXCEPT !.reg.last = [NoCall EXCEPT !.op = "remove", !.id = id, !.by = c,
                                               !.result = "KeyError"],
                   !.rm[c].pc = "raised"]

\* remove_connection, from the end of `await connection.close()` on: an
\* Exception of close() is caught and logged; the entry is deleted and the
\* active count decremented; a key that is gone by now makes `del` raise
\* KeyError out of remove_connection.
RemoveFinish(w, c) ==
    LET id == w.rm[c].id
        logged == CloseRaises(w.sess[w.rm[c].conn])
    IN
    IF id \in DOMAIN w.connections
    THEN [w EXCEPT !.connections = DeleteEntry(@, id),
                   !.connection_stats.active_connections = @ - 1,
                   !.reg.removed = @ \cup {id},
                   !.reg.order = Without(@, id),
                   !.reg.last = [NoCall EXCEPT !.op = "remove", !.id = id, !.by = c,
                                               !.result = IF logged THEN "removed_logged"
                                                          ELSE "removed"],
                   !.rm[c].pc = "returned"]
    ELSE [w EXCEPT !.reg.last = [NoCall EXCEPT !.op = "remove", !.id = id, !.by = c,
                                               !.result = "KeyError"],
                   !.rm[c].pc = "raised"]

\* remove_connection called by c, run to the first await that suspends
\* (inside connection.close()) or to its end.  j says, per session, whether
\* an SSH read thread exits within close()'s join timeout.
RemoveStart(w, c, id, j) ==
    LET w0 == [w EXCEPT !.rm[c].id = id] IN
    IF ~Registered(w0.connections, id)
    THEN [w0 EXCEPT !.reg.last = [NoCall EXCEPT !.op = "remove", !.id = id, !.by = c,
                                                !.result = "warned"],
                    !.rm[c].pc = "returned"]
    ELSE IF id \notin DOMAIN w0.connections
    THEN [w0 EXCEPT !.reg.last = [NoCall EXCEPT !.op = "remove", !.id = id, !.by = c,
                                                !.result = "KeyError"],
                    !.rm[c].pc = "raised"]
    ELSE LET s == w0.connections[id].connection
             r == CloseStart(w0.sess[s], c, j[s])
             w1 == [w0 EXCEPT !.sess[s] = r, !.rm[c].conn = s]
         IN IF Suspended(r, c) THEN [w1 EXCEPT !.rm[c].pc = "in_close"]
            ELSE RemoveFinish(w1, c)

\* The suspended close() of c's remove_connection resumes; when it returns,
\* remove_connection runs to its end.
RemoveResume(w, c) ==
    LET s == w.rm[c].conn
        r == CloseResume(w.sess[s])
        w1 == [w EXCEPT !.sess[s] = r]
    IN IF Suspended(r, c) THEN w1 ELSE RemoveFinish(w1, c)

\* A plain caller of remove_connection is done with its call.
Return(w, c) ==
    IF w.rm[c].pc \in {"returned", "raised"} THEN [w EXCEPT !.rm[c] = IdleFrame] ELSE w

\* The scan of cleanup_inactive_connections: the ids, in dict order, idle
\* for longer than max_idle.
Inactive(w, max_idle) ==
    LET idle(id) == InTable(w.connections, id)
                    /\ w.reg.now - w.connections[id].last_activity > max_idle
    IN SelectSeq(w.reg.order, idle)

\* The removal loop of cleanup_inactive_connections, run until a
\* remove_connection suspends, raises, or the list is done.
RECURSIVE SweepRun(_, _)
SweepRun(w, j) ==
    LET f == w.rm["sweep"] IN
    IF f.todo = <<>>
    THEN [w EXCEPT !.rm["sweep"] = IdleFrame,
                   !.reg.last = [NoCall EXCEPT !.op = "sweep", !.result = "returned", !.n = f.n]]
    ELSE LET w1 == RemoveStart([w EXCEPT !.rm["sweep"].todo = Tail(@)], "sweep", Head(f.todo), j)
         IN CASE w1.rm["sweep"].pc = "in_close" -> w1
              [] w1.rm["sweep"].pc = "returned" -> SweepRun(w1, j)
              [] w1.rm["sweep"].pc = "raised" ->
                   [w1 EXCEPT !.rm["sweep"] = IdleFrame,
                              !.reg.last = [NoCall EXCEPT !.op = "sweep", !.result = "KeyError"]]

\* cleanup_inactive_connections(max_idle) called.
SweepStart(w, max_idle, j) ==
    LET todo == Inactive(w, max_idle) IN
    SweepRun([w EXCEPT !.rm["sweep"] = [IdleFrame EXCEPT !.todo = todo, !.n = Len(todo)]], j)

\* The sweep's suspended remove_connection resumes, and the loop goes on.
SweepResume(w, j) ==
    LET w1 == RemoveResume(w, "sweep") IN
    CASE w1.rm["sweep"].pc = "in_close" -> w1
      [] w1.rm["sweep"].pc = "returned" -> SweepRun(w1, j)
      [] w1.rm["sweep"].pc = "raised" ->
           [w1 EXCEPT !.rm["sweep"] = IdleFrame,
                      !.reg.last = [NoCall EXCEPT !.op = "sweep", !.result = "KeyError"]]

\* ------------------------------------------------------------- the bridge
\* websocket_endpoint before it is called.
\*   main    the endpoint coroutine: none, accepted, rejecting, waiting (in
\*           asyncio.wait), awaiting (a cancelled task), in_remove, ws_close, done
\*   input, output   handle_input / handle_output: none, receiving / reading,
\*           cancelling (cancel() was called on it), done
\*   client  connected, gone (the disconnect is not received yet), disconnected
\* ghosts: first (the loop that ended first), cancelled, removeCalls, frames,
\*         lastFrame (the last frame received and the session method called for it)
BridgeIdle ==
    [main |-> "none", id |-> "none", conn |-> "none", input |-> "none", output |-> "none",
     client |-> "none", close_code |-> 0, first |-> "none", cancelled |-> {},
     removeCalls |-> 0, frames |-> 0,
     lastFrame |-> [kind |-> "none", call |-> "none"]]

\* ---------------------------------------------- the connect() in progress
\* TelnetProtocol.connect with credentials and its _handle_login coroutine.
\*   pc                 idle, wait_username, wait_password, settle, scan, returned
\*   login_in_progress  TelnetProtocol._login_in_progress
\*   buffer             the local `buffer` of _wait_for_regex_patterns or of
\*                      _check_login_errors, as the chunks read into it
\*   result             what connect() did: none, true, raises
\* ghosts: reads (chunks the server delivered), log (prompts the waits read
\* and credentials handed to send_data, in order), period (the output read by
\* anyone between the password send and the end of _check_login_errors),
\* timedOut (a prompt wait ended on its time bound)
\* local: LocalProtocol.connect, the forked child and the auto-login fields
\*   pc                 idle, connected, refused (create_connection raised)
\*   auto_login_state, output_buffer   the fields of LocalProtocol
\*   handler            where _handle_auto_login is suspended: none,
\*                      sleeping (asyncio.sleep(0.1) before the write)
\*   child              the forked process: its step in _setup_child_process,
\*                      the program it exec'ed, its exit status
\* ghosts: written (os.write calls of _handle_auto_login), reads, saw (what
\* the child found at /usr/bin/login)
LocalIdle ==
    [pc |-> "idle", auto_login_state |-> "none", output_buffer |-> <<>>,
     handler |-> "none", written |-> <<>>, reads |-> 0,
     child |-> [pc |-> "none", program |-> "none", status |-> "none", saw |-> "none"]]

\* The chunk a read loop has received and its conversion to text.
ConvIdle == [pc |-> "recv", data |-> <<>>, path |-> "none", text |-> <<>>]

\* No creation request yet: the request, the adapter class the factory
\* built, the arguments collected for ssh_client.connect, whether connect()
\* was called and whether it reached the transport, and the SSH payload
\* being sent with the writes made for it (offset and length of each).
NoRequest ==
    [connection_type |-> "none", private_key |-> "none", password |-> FALSE,
     has_dss |-> FALSE, login_exists |-> FALSE]
NoKwargs == [pkey |-> "none", password |-> FALSE]
CreateIdle ==
    [pc |-> "idle", request |-> NoRequest, protocol |-> "none", error |-> "none",
     connect_called |-> FALSE, transport |-> FALSE, kwargs |-> NoKwargs,
     payload |-> 0, sent_size |-> 0, writes |-> <<>>, short |-> FALSE]

\* handle_input of one endpoint, before it runs.
\*   pc        idle, receiving (in its while loop), done
\*   inbox     the messages of the client that websocket.receive() has not
\*             returned yet, oldest first
\*   calls     the send_data / resize_terminal calls that have not returned
\*   wire      what was handed to the SSH channel: message, offset, length
\*   returned  the messages whose call has returned, in that order
\*   arrived   how many messages the client has sent
InboxIdle ==
    [pc |-> "idle", inbox |-> <<>>, calls |-> <<>>, wire |-> <<>>,
     returned |-> <<>>, arrived |-> 0]

LoginIdle ==
    [pc |-> "idle", login_in_progress |-> FALSE, buffer |-> <<>>,
     result |-> "none", reads |-> 0, log |-> <<>>, period |-> <<>>,
     timedOut |-> FALSE, local |-> LocalIdle, conv |-> ConvIdle,
     create |-> CreateIdle, inbound |-> InboxIdle]

\* ------------------------------------------------- Spec: one adapter, driven
\* A session object is driven directly through the ConnectionProtocol
\* interface: the peer and the read loop act on their own, the driver calls
\* send_data, send_raw_data, resize_terminal, close and iterates read_output.
DriverSess == {"s1"}

Init ==
    /\ sess = [s \in Sess |-> Constructed("none")]
    /\ driver = [s \in Sess |-> "idle"]
    /\ RegistryInit
    /\ bridge = BridgeIdle
    /\ login = LoginIdle

\* ConnectionFactory.create_connection, the path on which connect() succeeds.
CreateConnection(s, k) ==
    /\ sess[s].kind = "none"
    /\ sess' = [sess EXCEPT ![s] = Connected(k)]
    /\ UNCHANGED <<login, driver, regVars, bridge>>

\* The remote end closes the stream (EOF, child exit) or resets the connection.
PeerEnds(s, e) ==
    /\ sess[s].kind # "none" /\ sess[s].peer = "up"
    /\ sess' = [sess EXCEPT ![s].peer = e]
    /\ UNCHANGED <<login, driver, regVars, bridge>>

\* The read loop receives a chunk.
ReaderData(s) ==
    /\ CanReadData(sess[s])
    /\ sess' = [sess EXCEPT ![s] = ReadData(@)]
    /\ UNCHANGED <<login, driver, regVars, bridge>>

\* The Telnet read loop receives a chunk with a login-failure pattern in it.
ReaderAuthError(s) ==
    /\ sess[s].kind = "telnet" /\ sess[s].reader = "running"
    /\ ~sess[s].closed /\ sess[s].peer = "up" /\ ~sess[s].authentication_failed
    /\ sess' = [sess EXCEPT ![s] = TelnetReadAuthError(@)]
    /\ UNCHANGED <<login, driver, regVars, bridge>>

\* The read loop ends.
ReaderEnd(s) ==
    /\ CanReadEnd(sess[s])
    /\ sess' = [sess EXCEPT ![s] = ReadEnd(@)]
    /\ UNCHANGED <<login, driver, regVars, bridge>>

\* The local reader's own close() resumes after the await on its task.
ReaderCloseResume(s) ==
    /\ Suspended(sess[s], "reader")
    /\ sess' = [sess EXCEPT ![s] = CloseResume(@)]
    /\ UNCHANGED <<login, driver, regVars, bridge>>

\* The event loop runs a coroutine the SSH thread submitted.
Handoff(s) ==
    /\ sess[s].pending # <<>>
    /\ PutEnabled(sess[s])
    /\ sess' = [sess EXCEPT ![s] = SSHHandoff(@)]
    /\ UNCHANGED <<login, driver, regVars, bridge>>

\* The driver takes the next item of read_output().
DriverReadOutput(s) ==
    /\ sess[s].kind # "none"
    /\ ReadOutputEnabled(sess[s])
    /\ sess' = [sess EXCEPT ![s] = ReadOutput(@)]
    /\ UNCHANGED <<login, driver, regVars, bridge>>

\* The driver calls send_data, send_raw_data or resize_terminal.
DriverSend(s, op, out) ==
    /\ sess[s].kind # "none" /\ driver[s] = "idle"
    /\ sess[s].sends < MaxSends
    /\ out \in Outcomes(sess[s])
    /\ LET r == SendCall(sess[s], op, out, "driver") IN
        /\ sess' = [sess EXCEPT ![s] = r]
        /\ driver' = [driver EXCEPT ![s] = IF Suspended(r, "driver") THEN "in_close" ELSE "idle"]
    /\ UNCHANGED <<login, regVars, bridge>>

\* close() is called: by the driver, or by another task while a call of the
\* driver is suspended in it.
DriverClose(s, joined) ==
    /\ sess[s].kind # "none"
    /\ sess[s].closeCalls < MaxCloseCalls
    /\ LET r == CloseStart(sess[s], "driver", joined) IN
        /\ sess' = [sess EXCEPT ![s] = r]
        /\ driver' = [driver EXCEPT ![s] = IF Suspended(r, "driver") THEN "in_close" ELSE "idle"]
    /\ UNCHANGED <<login, regVars, bridge>>

\* The event loop resumes the driver's suspended close().
DriverCloseResume(s) ==
    /\ Suspended(sess[s], "driver")
    /\ LET r == CloseResume(sess[s]) IN
        /\ sess' = [sess EXCEPT ![s] = r]
        /\ driver' = [driver EXCEPT ![s] = IF Suspended(r, "driver") THEN "in_close" ELSE "idle"]
    /\ UNCHANGED <<login, regVars, bridge>>

AdapterStep(s) ==
    \/ \E e \in {"eof", "reset"} : PeerEnds(s, e)
    \/ ReaderData(s)
    \/ ReaderAuthError(s)
    \/ ReaderEnd(s)
    \/ ReaderCloseResume(s)
    \/ Handoff(s)

Next ==
    \E s \in DriverSess :
        \/ \E k \in Kinds : CreateConnection(s, k)
        \/ AdapterStep(s)
        \/ DriverReadOutput(s)
        \/ \E op \in SendOps, out \in {"ok", "reset", "error"} : DriverSend(s, op, out)
        \/ \E joined \in BOOLEAN : DriverClose(s, joined)
        \/ DriverCloseResume(s)

Spec == Init /\ [][Next]_vars

\* ------------------------------------------------------------ claims, Spec
Increasing(q) == \A i, j \in 1..Len(q) : i < j => q[i] < q[j]

\* C1: close() is idempotent for every adapter.  No teardown side effect
\* (logout commands, channel/client/writer close, descriptor close, signal
\* to the child) is ever performed twice or by a call other than the first
\* close() call on the object, and a close() call made after an earlier one
\* leaves everything a caller can observe of the object as it was.
C1_CloseIdempotent ==
    /\ [](\A s \in Sess :
            /\ \A e \in Effects : sess[s].fx[e] <= 1
            /\ sess[s].fxBy \subseteq {1})
    /\ [][\A s \in Sess :
            (sess[s].closeCalls >= 1 /\ sess'[s].closeCalls > sess[s].closeCalls)
                => /\ Observable(sess'[s]) = Observable(sess[s])
                   /\ sess'[s].fx = sess[s].fx
                   /\ sess'[s].closePc = sess[s].closePc]_vars

\* C1 witness: a second close() call has returned on a session whose first
\* call did the teardown.
C1_Witness ==
    \E s \in Sess :
        /\ sess[s].closeCalls >= 2 /\ sess[s].fxBy = {1}
        /\ sess[s].closePc = "none" /\ sess[s].open = {}

\* C3: once closed is true, a send_data, send_raw_data or resize_terminal
\* call attempts no write and no resize on the transport.
C3_NoTransportUseOnceClosed ==
    \A s \in Sess : sess[s].lastCall.wasClosed => ~sess[s].lastCall.attempted

\* C4: read_output yields the chunks of a session in the order its read loop
\* produced them (chunks are numbered in production order), without
\* repetition, for every adapter and through the SSH thread's handoff.
C4_OrderPreserved == \A s \in Sess : Increasing(sess[s].delivered)

\* C4 witness: an SSH session has delivered a chunk while two later chunks
\* submitted by the thread still wait for the event loop.
C4_Witness ==
    \E s \in Sess :
        /\ sess[s].kind = "ssh"
        /\ Len(sess[s].delivered) >= 1 /\ Len(sess[s].pending) >= 2

\* C5: the relay is bounded and stalls its producer when full.  Whatever the
\* bound, it is below the number of chunks a long enough run produces, so
\* the queue never holds all MaxChunks chunks of this run at once.
C5_RelayBounded == \A s \in Sess : Len(sess[s].queue) < MaxChunks

\* --------------------------------------------- SpecRegistry: the table, driven
\* The ConnectionManager is driven through its interface by tasks of one
\* event loop: sessions are registered, looked up and removed by two tasks,
\* while the registered sessions end on their own.
MaxTime == 2          \* minutes the clock of SpecSweep advances
RegTasks == {"t1", "t2"}
MaxIdles == {0, 1}    \* max_idle_minutes arguments of the sweep
\* Per session, whether its SSH read thread exits within close()'s join
\* timeout; there is nothing to choose where no such thread runs.
Joins ==
    {j \in [Sess -> BOOLEAN] :
        \A s \in Sess : j[s] => (sess[s].kind = "ssh" /\ sess[s].reader = "running")}

\* The object the next create_connection builds: the slots fill in order.
NextObject ==
    IF sess["s1"].kind = "none" THEN "s1"
    ELSE IF sess["s2"].kind = "none" THEN "s2" ELSE "none"

\* initiate_connection on its success path: a session is built and
\* connected, then registered under an id that is not in the table.
InitiateConnection(id, s, k) ==
    /\ s = NextObject
    /\ ~InTable(connections, id)
    /\ SetWorld(AddConnection([World EXCEPT !.sess[s] = Connected(k)], id, s))
    /\ UNCHANGED <<login, driver, bridge>>

\* What connect() can do: return True, return False, or raise.
ConnectOutcomes == {"ok", "false", "raises"}

\* create_connection returns the protocol object: connect() did not raise
\* and `if not success: raise ValueError` did not fire.
ConnectSucceededAlways(outcome) == TRUE

ConnectSucceeded(outcome) == outcome = "ok"

\* initiate_connection: the object is built and connect() awaited; on
\* success it is registered, else the exception becomes an HTTP 400 and
\* add_connection is not reached (the object is dropped).
Initiate(w, id, s, k, outcome) ==
    IF ConnectSucceeded(outcome)
    THEN AddConnection([w EXCEPT !.sess[s] = Connected(k)], id, s)
    ELSE [w EXCEPT !.reg.last = [NoCall EXCEPT !.op = "initiate", !.id = id,
                                               !.result = "error"]]

\* A creation request, whatever connect() does.
InitiateRequest(id, s, k, outcome) ==
    /\ s = NextObject
    /\ ~InTable(connections, id)
    /\ SetWorld(Initiate(World, id, s, k, outcome))
    /\ UNCHANGED <<login, driver, bridge>>

\* get_connection(id) by any task.
RegGet(id) ==
    /\ SetWorld(GetConnection(World, id))
    /\ UNCHANGED <<login, driver, bridge>>

\* remove_connection(id) called by task c.
RegRemove(c, id, j) ==
    /\ rm[c].pc = "idle"
    /\ SetWorld(Return(RemoveStart(World, c, id, j), c))
    /\ UNCHANGED <<login, driver, bridge>>

\* The event loop resumes task c inside its remove_connection.
RegRemoveResume(c) ==
    /\ rm[c].pc = "in_close"
    /\ Suspended(sess[rm[c].conn], c)
    /\ SetWorld(Return(RemoveResume(World, c), c))
    /\ UNCHANGED <<login, driver, bridge>>

\* cleanup_inactive_connections(max_idle) called.
RegSweep(max_idle, j) ==
    /\ rm["sweep"].pc = "idle"
    /\ SetWorld(SweepStart(World, max_idle, j))
    /\ UNCHANGED <<login, driver, bridge>>

\* The event loop resumes the sweep inside its remove_connection.
RegSweepResume(j) ==
    /\ rm["sweep"].pc = "in_close"
    /\ Suspended(sess[rm["sweep"].conn], "sweep")
    /\ SetWorld(SweepResume(World, j))
    /\ UNCHANGED <<login, driver, bridge>>

\* A minute passes.
Tick ==
    /\ reg.now < MaxTime
    /\ reg' = [reg EXCEPT !.now = @ + 1]
    /\ UNCHANGED <<login, sess, driver, connections, connection_stats, rm, bridge>>

NextRegistry ==
    \/ \E id \in Ids, s \in Sess, k \in Kinds, o \in ConnectOutcomes :
            InitiateRequest(id, s, k, o)
    \/ \E id \in Ids : RegGet(id)
    \/ \E c \in RegTasks, id \in Ids, j \in Joins : RegRemove(c, id, j)
    \/ \E c \in RegTasks : RegRemoveResume(c)
    \/ \E s \in Sess : PeerEnds(s, "eof")
    \/ \E s \in Sess : ReaderEnd(s)
    \/ \E s \in Sess : ReaderCloseResume(s)

SpecRegistry == Init /\ [][NextRegistry]_vars

\* ------------------------------------------- SpecSweep: the table, with time
\* The same tasks, a clock, and the idle sweep; sessions are of one adapter
\* whose close() never suspends and one whose close() does.
SweepKinds == {"ssh", "telnet"}

NextSweep ==
    \/ \E id \in Ids, s \in Sess, k \in SweepKinds : InitiateConnection(id, s, k)
    \/ \E id \in Ids : RegGet(id)
    \/ \E c \in RegTasks, id \in Ids, j \in Joins : RegRemove(c, id, j)
    \/ \E c \in RegTasks : RegRemoveResume(c)
    \/ \E m \in MaxIdles, j \in Joins : RegSweep(m, j)
    \/ \E j \in Joins : RegSweepResume(j)
    \/ Tick

SpecSweep == Init /\ [][NextSweep]_vars

\* ---------------------------------------------------- claims, SpecRegistry
\* What get(id) has to return: the session added last under id, unless a
\* remove(id) has completed since.
Expected(id) ==
    IF id \in DOMAIN reg.addedAs /\ id \notin reg.removed THEN reg.addedAs[id] ELSE "none"

\* C6: after any sequence of registry operations, get(id) returns the
\* session most recently added under id if no remove(id) has completed
\* since, and absent if id was never added or has been removed.
C6_GetReturnsLastAdded ==
    reg.last.op = "get" => reg.last.result = Expected(reg.last.id)

\* C6 witness: get(id) has answered absent for an id that was added and
\* removed, while the other id still resolves to its session.
C6_Witness ==
    /\ reg.last.op = "get" /\ reg.last.result = "none"
    /\ reg.last.id \in reg.removed
    /\ \E i \in DOMAIN connections : i # reg.last.id

\* C7: a remove(id) called after an earlier remove(id) has completed (and
\* id was not added again) does not raise, does not invoke close() on any
\* session, and leaves the table and both counters unchanged.
C7_SecondRemoveIsNoop ==
    [][\A c \in RegTasks, id \in Ids :
          (id \in reg.removed /\ \E j \in Joins : RegRemove(c, id, j))
              => /\ reg'.last.result = "warned"
                 /\ sess' = sess
                 /\ connections' = connections
                 /\ connection_stats' = connection_stats]_vars

\* C7 witness: a second remove(id) has returned with the warning while
\* another entry is in the table.
C7_Witness ==
    /\ reg.last.op = "remove" /\ reg.last.result = "warned"
    /\ reg.last.id \in reg.removed
    /\ connection_stats.active_connections = 1
    /\ connection_stats.total_connections = 2

\* C8: when two remove(id) calls for the same id overlap, neither call
\* raises, and the entry is deleted and the active count decremented once
\* (the active count stays equal to the number of entries).
C8_OverlappingRemoves ==
    /\ reg.last.result # "KeyError"
    /\ connection_stats.active_connections = Cardinality(DOMAIN connections)

\* ------------------------------------ SpecBridge: one client, one session
\* A session is registered under id "x"; one WebSocket client attaches to
\* "x" or to the unknown id "y", sends frames and disconnects when it likes,
\* while the session's transport and read loop act on their own.
MaxFrames == 2        \* frames the client sends
Frames == {"data", "resize", "binary"}
BridgeSess == "s1"
Tasks == {"input", "output"}

\* initiate_connection for the one session of SpecBridge.
BridgeInitiate(k) == InitiateConnection("x", BridgeSess, k)

\* websocket_endpoint is called and accept() returns.  The client knows the
\* id of a session only once initiate_connection has returned it.
Accept(id) ==
    /\ bridge.main = "none"
    /\ id = "x" => id \in DOMAIN reg.addedAs
    /\ bridge' = [bridge EXCEPT !.main = "accepted", !.id = id, !.client = "connected"]
    /\ UNCHANGED <<login, sess, driver, regVars>>

\* The client goes away; the server has not received the disconnect yet.
ClientDisconnect ==
    /\ bridge.client = "connected"
    /\ bridge.main \in {"accepted", "waiting", "awaiting"}
    /\ bridge' = [bridge EXCEPT !.client = "gone"]
    /\ UNCHANGED <<login, sess, driver, regVars>>

\* get_connection; an unknown id is answered with close code 4000, else the
\* two tasks are created and the endpoint waits for the first to complete.
BridgeStartTasksFirst ==
    /\ bridge.main = "accepted"
    /\ LET w == GetConnection(World, bridge.id)
           s == w.reg.last.result
       IN /\ SetWorld(w)
          /\ bridge' = IF s = "none"
                       THEN [bridge EXCEPT !.main = "rejecting", !.close_code = 4000,
                                           !.input = "receiving", !.output = "reading"]
                       ELSE [bridge EXCEPT !.main = "waiting", !.conn = s,
                                           !.input = "receiving", !.output = "reading"]
    /\ UNCHANGED <<login, driver>>

BridgeStart ==
    /\ bridge.main = "accepted"
    /\ LET w == GetConnection(World, bridge.id)
           s == w.reg.last.result
       IN /\ SetWorld(w)
          /\ bridge' = IF s = "none"
                       THEN [bridge EXCEPT !.main = "rejecting", !.close_code = 4000]
                       ELSE [bridge EXCEPT !.main = "waiting", !.conn = s,
                                           !.input = "receiving", !.output = "reading"]
    /\ UNCHANGED <<login, driver>>

\* close() called inside a task of the bridge (LocalProtocol.send_data on a
\* failed write), run to its return: its one await, on the cancelled reader
\* task, is over within two turns of the event loop, before the completion
\* of any other task can have reached the endpoint coroutine.
RunClose(r) == IF Suspended(r, "input") THEN CloseResume(r) ELSE r

\* What handle_input does with a received frame: {"data": s} goes to
\* send_data, {"resize": [c, r]} to resize_terminal, anything that is not
\* text is logged as an unknown message type.
Forward(r, f, out) ==
    CASE f = "data"   -> RunClose(SendCall(r, "send_data", out, "input"))
      [] f = "resize" -> RunClose(SendCall(r, "resize_terminal", out, "input"))
      [] OTHER        -> r

\* The session method handle_input called for the frame, if any.
CalledFor(r0, r) == IF r.sends > r0.sends THEN r.lastCall.op ELSE "none"

\* An exception out of send_data ends handle_input (`except Exception`).
InputEnds(r0, r) ==
    r.sends > r0.sends /\ r.lastCall.result \in {"raised", "not_connected"}

\* handle_input receives a frame of the client and handles it.
InputFrame(f, out) ==
    /\ bridge.input = "receiving" /\ bridge.client = "connected"
    /\ bridge.frames < MaxFrames
    /\ LET r0 == sess[bridge.conn] IN
        /\ out \in Outcomes(r0) \cup {"ok"}
        /\ f = "binary" => out = "ok"
        /\ LET r == Forward(r0, f, out) IN
            /\ sess' = [sess EXCEPT ![bridge.conn] = r]
            /\ bridge' = [bridge EXCEPT !.frames = @ + 1,
                                        !.lastFrame = [kind |-> f, call |-> CalledFor(r0, r)],
                                        !.input = IF InputEnds(r0, r) THEN "done" ELSE @]
    /\ UNCHANGED <<login, driver, regVars>>

\* handle_input receives websocket.disconnect and breaks.
InputDisconnect ==
    /\ bridge.input = "receiving" /\ bridge.client = "gone"
    /\ bridge' = [bridge EXCEPT !.input = "done", !.client = "disconnected"]
    /\ UNCHANGED <<login, sess, driver, regVars>>

\* handle_output takes the next item of read_output(): the generator has
\* ended, or the chunk is sent to the client; the loop breaks when the
\* client state is not CONNECTED or the send fails (ok = FALSE), and the
\* generator it leaves behind is finalized.
OutputRead(ok) ==
    /\ bridge.output = "reading"
    /\ ReadOutputEnabled(sess[bridge.conn])
    /\ ok \/ bridge.client = "gone"
    /\ LET r == ReadOutput(sess[bridge.conn])
           break == r.gen = "ended" \/ bridge.client = "disconnected" \/ ~ok
       IN /\ sess' = [sess EXCEPT ![bridge.conn] = IF break THEN [r EXCEPT !.gen = "ended"] ELSE r]
          /\ bridge' = [bridge EXCEPT !.output = IF break THEN "done" ELSE @]
    /\ UNCHANGED <<login, driver, regVars>>

\* asyncio.wait(FIRST_COMPLETED) returns: every pending task is cancelled,
\* and the endpoint awaits it.
MainWake ==
    /\ bridge.main = "waiting"
    /\ bridge.input = "done" \/ bridge.output = "done"
    /\ bridge' = [bridge EXCEPT
            !.main = "awaiting",
            !.first = IF bridge.input = "done" /\ bridge.output = "done" THEN "both"
                      ELSE IF bridge.input = "done" THEN "input" ELSE "output",
            !.cancelled = {t \in Tasks : bridge[t] # "done"},
            !.input = IF @ = "done" THEN @ ELSE "cancelling",
            !.output = IF @ = "done" THEN @ ELSE "cancelling"]
    /\ UNCHANGED <<login, sess, driver, regVars>>

\* The cancelled task is resumed with CancelledError at its await
\* (receive(), or the queue get inside read_output) and ends.
TaskCancelled(t) ==
    /\ bridge[t] = "cancelling"
    /\ bridge' = [bridge EXCEPT ![t] = "done"]
    /\ sess' = IF t = "output" THEN [sess EXCEPT ![bridge.conn].gen = "ended"] ELSE sess
    /\ UNCHANGED <<login, driver, regVars>>

\* `await task` has returned for every pending task.
AwaitedNoWait(b) == TRUE

Awaited(b) == b.input = "done" /\ b.output = "done"

\* Where the endpoint is once its remove_connection call has run as far as
\* it can: suspended in close(), or past it (an exception is logged).
AfterRemove(w, b) ==
    [b EXCEPT !.main = IF w.rm["ws"].pc = "in_close" THEN "in_remove" ELSE "ws_close",
              !.removeCalls = @ + 1]

\* The finally of an attached endpoint: remove_connection(connection_id).
MainFinally(j) ==
    /\ bridge.main = "awaiting"
    /\ Awaited(bridge)
    /\ LET w == RemoveStart(World, "ws", bridge.id, j) IN
        /\ SetWorld(Return(w, "ws"))
        /\ bridge' = AfterRemove(w, bridge)
    /\ UNCHANGED <<login, driver>>

\* The finally after the 4000 close of an unknown id.
BridgeReject(j) ==
    /\ bridge.main = "rejecting"
    /\ LET w == RemoveStart(World, "ws", bridge.id, j) IN
        /\ SetWorld(Return(w, "ws"))
        /\ bridge' = AfterRemove(w, bridge)
    /\ UNCHANGED <<login, driver>>

\* The event loop resumes the endpoint inside remove_connection.
BridgeRemoveResume ==
    /\ bridge.main = "in_remove"
    /\ Suspended(sess[rm["ws"].conn], "ws")
    /\ LET w == RemoveResume(World, "ws") IN
        /\ SetWorld(Return(w, "ws"))
        /\ bridge' = [bridge EXCEPT !.main = IF w.rm["ws"].pc = "in_close"
                                             THEN "in_remove" ELSE "ws_close"]
    /\ UNCHANGED <<login, driver>>

\* The end of the finally: websocket.close() if the client state is
\* CONNECTED; after the 4000 close it raises, which is logged.
BridgeClose ==
    /\ bridge.main = "ws_close"
    /\ bridge' = [bridge EXCEPT !.main = "done",
                                !.close_code = IF @ = 0 /\ bridge.client # "disconnected"
                                               THEN 1000 ELSE @]
    /\ UNCHANGED <<login, sess, driver, regVars>>

\* What the session does on its own.
SessionStep ==
    \/ \E e \in {"eof", "reset"} : PeerEnds(BridgeSess, e)
    \/ ReaderData(BridgeSess)
    \/ ReaderAuthError(BridgeSess)
    \/ ReaderEnd(BridgeSess)
    \/ ReaderCloseResume(BridgeSess)
    \/ Handoff(BridgeSess)

NextBridge ==
    \/ \E k \in Kinds : BridgeInitiate(k)
    \/ \E id \in Ids : Accept(id)
    \/ ClientDisconnect
    \/ BridgeStart
    \/ \E f \in Frames, out \in {"ok", "reset", "error"} : InputFrame(f, out)
    \/ InputDisconnect
    \/ \E ok \in BOOLEAN : OutputRead(ok)
    \/ MainWake
    \/ \E t \in Tasks : TaskCancelled(t)
    \/ \E j \in Joins : MainFinally(j)
    \/ \E j \in Joins : BridgeReject(j)
    \/ BridgeRemoveResume
    \/ BridgeClose
    \/ SessionStep

SpecBridge == Init /\ [][NextBridge]_vars

\* The steps of the endpoint coroutine and of its two tasks.
MainStep ==
    \/ BridgeStart
    \/ MainWake
    \/ \E j \in Joins : MainFinally(j)
    \/ \E j \in Joins : BridgeReject(j)
    \/ BridgeRemoveResume
    \/ BridgeClose

InputStep == InputDisconnect \/ TaskCancelled("input")

OutputStep == (\E ok \in BOOLEAN : OutputRead(ok)) \/ TaskCancelled("output")

\* The event loop runs every coroutine that is ready, and the one-second
\* timeout of read_output expires; nothing is assumed of the client, of the
\* remote end or of the read loops.
FairBridge == WF_vars(MainStep) /\ WF_vars(InputStep) /\ WF_vars(OutputStep)

\* The bridge with a quieter environment, for the properties checked
\* under fairness: fewer chunks, fewer frames, no login-failure chunk.
LiveChunks == 1       \* chunks the read loop produces under SpecBridgeFair
LiveFrames == 1       \* frames the client sends under SpecBridgeFair

LiveData ==
    /\ sess[BridgeSess].produced < LiveChunks
    /\ ReaderData(BridgeSess)

LiveFrame(f, out) ==
    /\ bridge.frames < LiveFrames
    /\ InputFrame(f, out)

NextLive ==
    \/ \E k \in Kinds : BridgeInitiate(k)
    \/ \E id \in Ids : Accept(id)
    \/ ClientDisconnect
    \/ \E f \in Frames, out \in {"ok", "reset", "error"} : LiveFrame(f, out)
    \/ MainStep
    \/ InputStep
    \/ OutputStep
    \/ \E e \in {"eof", "reset"} : PeerEnds(BridgeSess, e)
    \/ LiveData
    \/ ReaderEnd(BridgeSess)
    \/ ReaderCloseResume(BridgeSess)
    \/ Handoff(BridgeSess)

SpecBridgeFair == Init /\ [][NextLive]_vars /\ FairBridge

\* ------------------------------------------------------ claims, SpecBridge
\* The endpoint was attached to a session (it got past get_connection).
Attached == bridge.conn # "none"

\* The endpoint's remove_connection call has returned.
Destroyed == Attached /\ bridge.main \in {"ws_close", "done"}

\* C2: whenever a session has been destroyed (the bridge's remove(id) has
\* completed), its transport resources have been released, also when the
\* adapter had marked itself closed before close() was invoked.
C2_ReleasedWhenDestroyed ==
    Destroyed => sess[bridge.conn].open = {}

\* C9: once either loop has ended the other is cancelled and awaited; the
\* registry remove starts only after both loops have finished, and every
\* attached bridge that has ended has run it, leaving no entry behind.
C9_TeardownAfterBothLoops ==
    /\ (Attached /\ bridge.removeCalls > 0)
          => /\ bridge.input = "done" /\ bridge.output = "done"
             /\ bridge.first \in {"input", "output"} => bridge.cancelled = Tasks \ {bridge.first}
    /\ (Attached /\ bridge.main = "done")
          => bridge.removeCalls = 1 /\ ~InTable(connections, bridge.id)

\* C9 witness: the inbound loop ended first, the outbound loop was
\* cancelled, and the bridge has ended with the entry removed.
C9_Witness ==
    /\ Attached /\ bridge.main = "done" /\ bridge.first = "input"
    /\ bridge.cancelled = {"output"} /\ bridge.removeCalls = 1

BridgeEnded ==
    /\ Attached /\ bridge.main = "done" /\ ~InTable(connections, bridge.id)
    /\ sess[bridge.conn].gen = "ended"

\* C10: once an attached session's closed flag is true, read_output ends
\* and the bridge ends and removes the entry, whatever the client does; and
\* once the client has disconnected, the bridge ends and removes the entry,
\* whatever the session does.
C10_BridgeEventuallyEnds ==
    /\ (bridge.main = "waiting" /\ sess[bridge.conn].closed) ~> BridgeEnded
    /\ (bridge.main = "waiting" /\ bridge.client = "gone") ~> BridgeEnded

\* C10 witness: the bridge of a silent, still connected client has ended
\* because the session closed.
C10_Witness ==
    /\ Attached /\ bridge.main = "done" /\ bridge.first = "output"
    /\ bridge.frames = 0 /\ bridge.client = "connected"
    /\ sess[bridge.conn].gen = "ended" /\ ~InTable(connections, bridge.id)

\* C11: every binary frame the bridge receives is forwarded to the session
\* as a send_raw_data call, as every {"data": s} frame is forwarded as
\* send_data and every {"resize": [cols, rows]} frame as resize_terminal.
C11_FramesForwarded ==
    /\ bridge.lastFrame.kind = "binary" => bridge.lastFrame.call = "send_raw_data"
    /\ bridge.lastFrame.kind = "data" => bridge.lastFrame.call = "send_data"
    /\ bridge.lastFrame.kind = "resize" => bridge.lastFrame.call = "resize_terminal"

\* C12: if an adapter's connect() fails (raises or returns false), for any
\* transport kind, the creation request fails with an error and no registry
\* entry is created: the table and both counters are unchanged.
C12_FailedConnectNotRegistered ==
    [][\A id \in Ids, s \in Sess, k \in Kinds, o \in ConnectOutcomes \ {"ok"} :
          InitiateRequest(id, s, k, o)
              => /\ reg'.last.op = "initiate" /\ reg'.last.result = "error"
                 /\ connections' = connections
                 /\ connection_stats' = connection_stats]_vars

\* C12 witness: a creation request has failed while one session is in the
\* table, and the table still holds just that session.
C12_Witness ==
    /\ reg.last.op = "initiate" /\ reg.last.result = "error"
    /\ Cardinality(DOMAIN connections) = 1
    /\ connection_stats = [total_connections |-> 1, active_connections |-> 1]

\* ==================================================== SpecTelnetLogin
\* One TelnetProtocol.connect() call with a username and a password in its
\* config, against a server that sends output in chunks.  The coroutine runs
\* from one read to the next; the background read task (_read_output_async)
\* runs whenever it exists and has not been cancelled.
MaxLoginChunks == 4   \* chunks the server sends during and after one connect()

Tel == "s1"

\* What one read can return.  fail is a text one LOGIN_ERROR_PATTERNS regex
\* matches ("Login incorrect"), refused one a CONNECTION_ERROR_PATTERNS regex
\* matches; fail_head and fail_tail are the same failure text cut between two
\* reads; user_prompt and pass_prompt end on a line USERNAME_PATTERNS
\* (PASSWORD_PATTERNS) matches.
Chunks == {"text", "user_prompt", "pass_prompt", "fail", "fail_head", "fail_tail", "refused"}

\* What the transport does with a credential written to it.
WriteOutcomes == {"ok", "reset", "error"}

\* pattern.search(buffer) over a text made of the chunks of buf, for the
\* three pattern lists.
HasFailure(buf) ==
    \E i \in 1..Len(buf) :
        \/ buf[i] = "fail"
        \/ buf[i] = "fail_head" /\ i < Len(buf) /\ buf[i + 1] = "fail_tail"

HasRefused(buf) == \E i \in 1..Len(buf) : buf[i] = "refused"

HasPromptAny(buf, p) == Len(buf) > 0
HasPrompt(buf, p) == \E i \in 1..Len(buf) : buf[i] = p

\* _check_data_for_auth_errors: the two searches on one chunk.
ChunkMatchesLoginOnly(c) == HasFailure(<<c>>)
ChunkMatches(c) == HasFailure(<<c>>) \/ HasRefused(<<c>>)

\* _check_data_for_auth_errors(data)
CheckDataForAuthErrors(r, lg, c) ==
    IF r.authentication_failed \/ lg.login_in_progress THEN r
    ELSE IF ChunkMatches(c)
         THEN [r EXCEPT !.authentication_failed = TRUE, !.connected = FALSE, !.closed = TRUE]
         ELSE r

\* One iteration of _read_output_async that reads chunk c.
TelnetLoopRead(r, lg, c) ==
    LET r1 == CheckDataForAuthErrors(r, lg, c) IN
    IF r1.authentication_failed THEN [r1 EXCEPT !.reader = "done"]
    ELSE TelnetReadData(r1)

\* The test before asyncio.create_task(self._read_output_async()) in the
\* finally of _handle_login (self.reader is set once the connection is open).
ReadTaskRestartsNever(r) == FALSE
ReadTaskRestarts(r) == ~r.closed /\ r.reader # "running"

\* The finally of _handle_login, then connect() returns True (res = "true")
\* or raises ValueError (res = "raises").
Finally(st, res) ==
    [r |-> IF ReadTaskRestarts(st.r) THEN [st.r EXCEPT !.reader = "running"] ELSE st.r,
     lg |-> [st.lg EXCEPT !.login_in_progress = FALSE, !.pc = "returned", !.result = res]]

\* `except Exception` of _handle_login for a ValueError of send_data: raised
\* again if the session is closed or failed authentication or the message
\* says the connection is gone (a reset sets closed), else swallowed.
Except(st) ==
    IF st.r.authentication_failed \/ st.r.closed
    THEN Finally(st, "raises") ELSE Finally(st, "true")

\* await self.send_data(credential), the peer answering the write with out.
LoginSend(st, what, out) ==
    LET r0 == [st.r EXCEPT !.peer = CASE out = "ok" -> @ [] out = "reset" -> "reset" [] OTHER -> "eof"]
    IN [r |-> Send(r0, "send_data", out, "connect"),
        lg |-> [st.lg EXCEPT !.log = Append(@, what)]]

\* _handle_login after the username wait returned (matched or None).
AfterUsernameWait(st, matched, out) ==
    IF st.r.authentication_failed \/ st.r.closed THEN Finally(st, "raises")
    ELSE IF ~matched THEN Finally(st, "true")
    ELSE LET s1 == LoginSend(st, "username", out) IN
         IF s1.r.lastCall.result = "ok"
         THEN [s1 EXCEPT !.lg.pc = "wait_password", !.lg.buffer = <<>>]
         ELSE Except(s1)

\* _handle_login after the password wait returned: the password is sent,
\* _login_in_progress is cleared and the read task is created again before
\* asyncio.sleep(3).
AfterPasswordWait(st, matched, out) ==
    IF st.r.authentication_failed \/ st.r.closed THEN Finally(st, "raises")
    ELSE IF ~matched THEN Finally(st, "true")
    ELSE LET s1 == LoginSend(st, "password", out) IN
         IF s1.r.lastCall.result = "ok"
         THEN [r |-> IF ~s1.r.closed THEN [s1.r EXCEPT !.reader = "running"] ELSE s1.r,
               lg |-> [s1.lg EXCEPT !.login_in_progress = FALSE, !.pc = "settle",
                                    !.buffer = <<>>]]
         ELSE Except(s1)

AfterWait(st, matched, out) ==
    IF st.lg.pc = "wait_username" THEN AfterUsernameWait(st, matched, out)
    ELSE AfterPasswordWait(st, matched, out)

AwaitedPrompt(lg) == IF lg.pc = "wait_username" THEN "user_prompt" ELSE "pass_prompt"

\* The end of _check_login_errors: LOGIN_ERROR_PATTERNS searched in the
\* accumulated buffer (its ValueError is caught by its own except).
SearchLoginErrors(st) ==
    IF HasFailure(st.lg.buffer)
    THEN [st EXCEPT !.r.authentication_failed = TRUE, !.r.connected = FALSE, !.r.closed = TRUE]
    ELSE st

\* _handle_login after _check_login_errors returned.
AfterScan(st) ==
    IF st.r.authentication_failed THEN Finally(st, "raises") ELSE Finally(st, "true")

LoginState == [r |-> sess[Tel], lg |-> login]

SetLogin(st) ==
    /\ sess' = [sess EXCEPT ![Tel] = st.r]
    /\ login' = st.lg
    /\ UNCHANGED <<driver, regVars, bridge>>

InWait == login.pc \in {"wait_username", "wait_password"}

\* connect(): the connection opens, connected = True, the read task is
\* created; _handle_login sets _login_in_progress and cancels the task, which
\* has not run yet, and awaits it.
TelnetConnect ==
    /\ login.pc = "idle" /\ sess[Tel].kind = "none"
    /\ SetLogin([r |-> [Connected("telnet") EXCEPT !.reader = "done"],
                 lg |-> [LoginIdle EXCEPT !.pc = "wait_username", !.login_in_progress = TRUE]])

\* _wait_for_regex_patterns reads chunk c into its buffer; on a match it
\* returns and _handle_login goes on to its next read.
LoginWaitRead(c, out) ==
    /\ InWait /\ sess[Tel].peer = "up" /\ login.reads < MaxLoginChunks
    /\ LET lg1 == [login EXCEPT !.buffer = Append(@, c), !.reads = @ + 1,
                                !.log = IF c = AwaitedPrompt(login) THEN Append(@, c) ELSE @]
           matched == HasPrompt(lg1.buffer, AwaitedPrompt(login))
       IN IF matched THEN SetLogin(AfterWait([r |-> sess[Tel], lg |-> lg1], TRUE, out))
          ELSE SetLogin([r |-> sess[Tel], lg |-> lg1])

\* _wait_for_regex_patterns reaches its time bound on a live connection.
LoginWaitTimeout ==
    /\ InWait /\ sess[Tel].peer = "up"
    /\ SetLogin(AfterWait([LoginState EXCEPT !.lg.timedOut = TRUE], FALSE, "ok"))

\* _wait_for_regex_patterns reads the end of the stream (break) or gets a
\* connection reset (_last_error stored, connected = False, closed = True,
\* return None).
LoginWaitPeerGone ==
    /\ InWait /\ sess[Tel].peer # "up"
    /\ SetLogin(AfterWait(IF sess[Tel].peer = "reset"
                          THEN [LoginState EXCEPT !.r.connected = FALSE, !.r.closed = TRUE,
                                                  !.r.last_error = "wait"]
                          ELSE LoginState, FALSE, "ok"))

\* asyncio.sleep(3) ends and _check_login_errors starts.
SettleEnds ==
    /\ login.pc = "settle"
    /\ SetLogin([LoginState EXCEPT !.lg.pc = "scan"])

\* _check_login_errors reads chunk c into its buffer.
ScanRead(c) ==
    /\ login.pc = "scan" /\ sess[Tel].peer = "up" /\ login.reads < MaxLoginChunks
    /\ SetLogin([LoginState EXCEPT !.lg.buffer = Append(@, c), !.lg.reads = @ + 1,
                                   !.lg.period = Append(@, c)])

\* The remaining reads of _check_login_errors time out or return the end
\* of the stream.
ScanEnds ==
    /\ login.pc = "scan" /\ sess[Tel].peer # "reset"
    /\ SetLogin(AfterScan(SearchLoginErrors(LoginState)))

\* A read of _check_login_errors gets a connection reset: connected = False,
\* closed = True, return.
ScanReset ==
    /\ login.pc = "scan" /\ sess[Tel].peer = "reset"
    /\ SetLogin(AfterScan([LoginState EXCEPT !.r.connected = FALSE, !.r.closed = TRUE]))

\* reader.read() of _check_login_errors raises because the read task is
\* already waiting on the same reader: `except Exception: break`.
ScanReadRaises ==
    /\ login.pc = "scan" /\ sess[Tel].reader = "running" /\ sess[Tel].peer = "up"
    /\ SetLogin(AfterScan(SearchLoginErrors(LoginState)))

\* reader.read() of the read task raises because _check_login_errors is
\* already waiting on the same reader: `except Exception: break`, and the
\* finally of _read_output_async.
LoopReadRaises ==
    /\ login.pc = "scan" /\ sess[Tel].reader = "running" /\ sess[Tel].peer = "up"
    /\ ~sess[Tel].closed
    /\ SetLogin([LoginState EXCEPT !.r = TelnetReadEnd(@)])

\* The read task reads chunk c.
LoopRead(c) ==
    /\ sess[Tel].reader = "running" /\ ~sess[Tel].closed /\ sess[Tel].peer = "up"
    /\ login.reads < MaxLoginChunks
    /\ SetLogin([r |-> TelnetLoopRead(sess[Tel], login, c),
                 lg |-> [login EXCEPT !.reads = @ + 1,
                                      !.period = IF login.pc \in {"settle", "scan"}
                                                 THEN Append(@, c) ELSE @]])

\* The read task finds closed set at the top of its loop.
LoopSeesClosed ==
    /\ sess[Tel].reader = "running" /\ sess[Tel].closed
    /\ SetLogin([LoginState EXCEPT !.r.reader = "done"])

NextTelnetLogin ==
    \/ TelnetConnect
    \/ \E c \in Chunks, out \in WriteOutcomes : LoginWaitRead(c, out)
    \/ LoginWaitTimeout
    \/ LoginWaitPeerGone
    \/ SettleEnds
    \/ \E c \in Chunks : ScanRead(c)
    \/ ScanEnds
    \/ ScanReset
    \/ ScanReadRaises
    \/ LoopReadRaises
    \/ \E c \in Chunks : LoopRead(c)
    \/ LoopSeesClosed
    \/ ReaderEnd(Tel)
    \/ \E e \in {"eof", "reset"} : PeerEnds(Tel, e)

SpecTelnetLogin == Init /\ [][NextTelnetLogin]_vars

\* --------------------------------------------------------------- claims
Count(log, e) == Cardinality({i \in 1..Len(log) : log[i] = e})

\* C13: during a Telnet connect with credentials the username is sent at
\* most once and only after a username prompt matched, the password at most
\* once and only after the username was sent and a password prompt then
\* matched; the password is never sent before the username.
C13_CredentialsInOrder ==
    /\ Count(login.log, "username") <= 1
    /\ Count(login.log, "password") <= 1
    /\ \A i \in 1..Len(login.log) :
          /\ login.log[i] = "username"
                => \E j \in 1..(i - 1) : login.log[j] = "user_prompt"
          /\ login.log[i] = "password"
                => \E u \in 1..(i - 1) :
                      /\ login.log[u] = "username"
                      /\ \E j \in (u + 1)..(i - 1) : login.log[j] = "pass_prompt"

\* C13 witness: both credentials have been sent, after some other output.
C13_Witness ==
    /\ login.log = <<"user_prompt", "username", "pass_prompt", "password">>
    /\ login.reads > 2

\* C14: if the output read between the password send and the end of the
\* login-failure scan matches a login-failure pattern, then once connect()
\* is over the session is closed and not connected and connect() has raised
\* the authentication failure instead of returning success.
C14_LoginFailureFailsConnect ==
    (login.pc = "returned" /\ HasFailure(login.period))
        => /\ login.result = "raises"
           /\ sess[Tel].closed /\ ~sess[Tel].connected

\* C15: while the login sequence is reading from the stream (the username
\* wait, the password wait and the login-failure scan after the password)
\* the background read task is not running.
C15_ReadTaskPausedDuringLogin ==
    login.pc \in {"wait_username", "wait_password", "scan"}
        => sess[Tel].reader # "running"

\* C16: a chunk the read task reads while login is not in progress, and
\* that matches a login-failure or connection-refused pattern, makes the
\* session closed and not connected and ends the read loop in that step; while
\* login is in progress the read task leaves the three flags alone.
C16_ChunkScanOutsideLogin ==
    [][\A c \in Chunks :
          LoopRead(c)
              => /\ (~login.login_in_progress /\ c \in {"fail", "refused"})
                        => /\ sess'[Tel].closed /\ ~sess'[Tel].connected
                           /\ sess'[Tel].authentication_failed
                           /\ sess'[Tel].reader = "done"
                 /\ login.login_in_progress
                        => /\ sess'[Tel].closed = sess[Tel].closed
                           /\ sess'[Tel].connected = sess[Tel].connected
                           /\ sess'[Tel].authentication_failed
                                 = sess[Tel].authentication_failed]_vars

\* C16 witness: after connect() returned success, the read task has read a
\* connection-refused text and ended the session.
C16_Witness ==
    /\ login.pc = "returned" /\ login.result = "true"
    /\ login.log = <<>> /\ login.period = <<>>
    /\ sess[Tel].authentication_failed /\ sess[Tel].closed /\ ~sess[Tel].connected
    /\ sess[Tel].reader = "done" /\ sess[Tel].peer = "up"

\* C17: when a prompt wait reaches its time bound on a live connection, the
\* login is abandoned: no further credential is sent, connect() returns
\* success, the session is open and connected and the read task is running.
C17_PromptTimeoutAbandonsLogin ==
    [][LoginWaitTimeout
          => /\ login'.result = "true" /\ login'.pc = "returned"
             /\ login'.log = login.log
             /\ Count(login.log, "password") = 0
             /\ (login.pc = "wait_username" => Count(login.log, "username") = 0)
             /\ ~sess'[Tel].closed /\ sess'[Tel].connected
             /\ sess'[Tel].reader = "running"]_vars

\* C17 witness: the password prompt never came; connect() returned success
\* with only the username sent and the read task running.
C17_Witness ==
    /\ login.pc = "returned" /\ login.timedOut /\ login.result = "true"
    /\ login.log = <<"user_prompt", "username">>
    /\ sess[Tel].reader = "running" /\ ~sess[Tel].closed /\ sess[Tel].connected

\* ===================================================== SpecLocalLogin
\* One LocalProtocol: create_connection, connect() and its fork, the child
\* running _setup_child_process, and the parent's _read_from_pty feeding
\* _handle_auto_login with what the PTY prints.
MaxPtyChunks == 4     \* chunks the parent reads from the PTY
BufferLimit == 500    \* characters of output_buffer that are kept

Loc == "s1"

\* What os.path.exists / os.access find at /usr/bin/login.
LoginProgram == {"ok", "missing", "not_executable"}

\* What one os.read returns, by name: a prompt in one read, a prompt cut
\* between two reads (head, tail), other text, and a tail with so much text
\* behind it that a head read before it is pushed out of the buffer.
PtyChunks == {"text", "login_prompt", "password_prompt", "login_head", "login_tail"}
PtyBufferChunks == PtyChunks \cup {"password_head", "password_tail", "long_tail"}

Dots(n) == [i \in 1..n |-> "."]

\* The decoded text of a read, one character per element.
PtyText(c) ==
    CASE c = "text" -> <<"$", " ">>
      [] c = "login_prompt" -> <<"L", "o", "g", "i", "n", ":", " ">>
      [] c = "password_prompt" -> <<"P", "a", "s", "s", "w", "o", "r", "d", ":", " ">>
      [] c = "login_head" -> <<"u", "s">>
      [] c = "login_tail" -> <<"e", "r", ":", " ">>
      [] c = "password_head" -> <<"P", "a", "s">>
      [] c = "password_tail" -> <<"s", "w", "d", ":">>
      [] c = "long_tail" -> <<"e", "r", ":">> \o Dots(BufferLimit - 2)

\* str.lower(), on the letters the reads contain.
Lower(ch) == CASE ch = "L" -> "l" [] ch = "P" -> "p" [] OTHER -> ch

\* `prompt in buffer_lower`, buffer_lower being output_buffer.lower()
Contains(buf, p) ==
    \E i \in 1..(Len(buf) - Len(p) + 1) : \A k \in 1..Len(p) : Lower(buf[i + k - 1]) = p[k]

LoginPrompts ==
    {<<"l", "o", "g", "i", "n", ":">>, <<"u", "s", "e", "r", "n", "a", "m", "e", ":">>,
     <<"u", "s", "e", "r", ":">>}
PasswordPrompts ==
    {<<"p", "a", "s", "s", "w", "o", "r", "d", ":">>, <<"p", "a", "s", "s", "w", "d", ":">>}

\* _setup_child_process, statement by statement; each can raise.
ChildSteps == <<"close_master", "setsid", "tiocsctty", "dup2", "close_slave", "environ", "check", "execve">>

StepAfter(p) == ChildSteps[(CHOOSE i \in 1..Len(ChildSteps) : ChildSteps[i] = p) + 1]

\* os._exit(1)
ChildExit(ch) == [ch EXCEPT !.pc = "exited", !.status = 1]

\* The else branch of the login test: log and exit, no other program.
UnavailableRunsShell(ch) == [ch EXCEPT !.pc = "exec", !.program = "/bin/bash"]
Unavailable(ch) == ChildExit(ch)

\* One statement of _setup_child_process: it raises (fails) and the except
\* branch exits, or it runs.  found is what the login test sees.
ChildRun(ch, fails, found) ==
    IF fails THEN ChildExit(ch)
    ELSE CASE ch.pc = "check" ->
                IF found = "ok" THEN [ch EXCEPT !.pc = "execve", !.saw = found]
                ELSE Unavailable([ch EXCEPT !.saw = found])
           [] ch.pc = "execve" -> [ch EXCEPT !.pc = "exec", !.program = "/usr/bin/login"]
           [] OTHER -> [ch EXCEPT !.pc = StepAfter(ch.pc)]

\* output_buffer[:500], the other end of the buffer.
KeepOldest(buf) == IF Len(buf) > BufferLimit THEN SubSeq(buf, 1, BufferLimit) ELSE buf

\* `if len(self.output_buffer) > 500: self.output_buffer = self.output_buffer[-500:]`
Keep(buf) ==
    IF Len(buf) > BufferLimit THEN SubSeq(buf, Len(buf) - BufferLimit + 1, Len(buf)) ELSE buf

\* any(prompt in buffer_lower for prompt in ['login:', 'username:', 'user:'])
HasLoginPrompt(buf) == \E p \in LoginPrompts : Contains(buf, p)

\* 'password:' in buffer_lower or 'passwd:' in buffer_lower
HasPasswordPrompt(buf) == \E p \in PasswordPrompts : Contains(buf, p)

\* The state _handle_auto_login sets after its write.
NextLoginStateStuck(s) == s
NextLoginState(s) == IF s = "waiting_login" THEN "waiting_password" ELSE "done"

\* _handle_auto_login(text) up to its first await: the buffer, then the
\* prompt test of the current state.
HandleAutoLogin(lo, c) ==
    IF lo.auto_login_state = "done" THEN lo
    ELSE LET buf == Keep(lo.output_buffer \o PtyText(c))
             hit == IF lo.auto_login_state = "waiting_login"
                    THEN HasLoginPrompt(buf) ELSE HasPasswordPrompt(buf)
         IN [lo EXCEPT !.output_buffer = buf,
                       !.handler = IF hit THEN "sleeping" ELSE "none"]

\* _handle_auto_login after asyncio.sleep(0.1): os.write of the credential
\* of the current state; if it raises, the except branch sets done.
AutoLoginWrite(lo, out) ==
    LET what == IF lo.auto_login_state = "waiting_login" THEN "username" ELSE "password"
        lo1 == [lo EXCEPT !.written = Append(@, what), !.handler = "none"]
    IN IF out = "ok"
       THEN [lo1 EXCEPT !.auto_login_state = NextLoginState(@), !.output_buffer = <<>>]
       ELSE [lo1 EXCEPT !.auto_login_state = "done"]

SetLocal(r, lo) ==
    /\ sess' = [sess EXCEPT ![Loc] = r]
    /\ login' = [login EXCEPT !.local = lo]
    /\ UNCHANGED <<driver, regVars, bridge>>

\* The body of create_connection's LOCAL branch (the exists test and the
\* constructor), then connect() and its fork; FactoryBuild says when the
\* factory enters that branch.  user says whether config.username is set.
LocalCreate(user, found) ==
    /\ login.local.pc = "idle" /\ sess[Loc].kind = "none"
    /\ IF found = "missing"
       THEN SetLocal(sess[Loc], [LocalIdle EXCEPT !.pc = "refused"])
       ELSE SetLocal(Connected("local"),
                     [LocalIdle EXCEPT !.pc = "connected",
                                       !.auto_login_state = IF user THEN "waiting_login" ELSE "done",
                                       !.child.pc = ChildSteps[1]])

\* The child runs its next statement.
ChildStep(fails, found) ==
    /\ login.local.pc = "connected"
    /\ login.local.child.pc \in {ChildSteps[i] : i \in 1..Len(ChildSteps)}
    /\ SetLocal(sess[Loc], [login.local EXCEPT !.child = ChildRun(@, fails, found)])

\* _read_from_pty reads chunk c: _handle_auto_login, then _queue_output
\* unless the handler is suspended in its sleep.
LocalPtyRead(c) ==
    /\ login.local.pc = "connected" /\ login.local.handler = "none"
    /\ sess[Loc].reader = "running" /\ sess[Loc].connected /\ ~sess[Loc].closed
    /\ login.local.reads < MaxPtyChunks
    /\ LET lo == HandleAutoLogin([login.local EXCEPT !.reads = @ + 1], c) IN
       SetLocal(IF lo.handler = "none" THEN LocalReadData(sess[Loc]) ELSE sess[Loc], lo)

\* The sleep of _handle_auto_login ends in the running read task: the write,
\* then _queue_output of the chunk.
LocalAutoLoginWrite(out) ==
    /\ login.local.handler = "sleeping" /\ sess[Loc].reader = "running"
    /\ SetLocal(LocalReadData(sess[Loc]), AutoLoginWrite(login.local, out))

\* close() by another task: the read task is cancelled wherever it waits.
LocalClose ==
    /\ login.local.pc = "connected" /\ ~sess[Loc].closed
    /\ DriverClose(Loc, FALSE)

NextLocalLogin ==
    \/ \E user \in BOOLEAN, found \in LoginProgram : LocalCreate(user, found)
    \/ \E fails \in BOOLEAN, found \in LoginProgram : ChildStep(fails, found)
    \/ \E c \in PtyChunks : LocalPtyRead(c)
    \/ \E out \in {"ok", "error"} : LocalAutoLoginWrite(out)
    \/ LocalClose
    \/ DriverCloseResume(Loc)

SpecLocalLogin == Init /\ [][NextLocalLogin]_vars

\* --------------------------------------------------------------- claims
\* C18: the child of a local PTY session either execs /usr/bin/login or
\* exits with a failure status; whether the login program is missing, not
\* executable, or a setup step fails, it never execs anything else.
C18_ChildExecsLoginOrFails ==
    LET ch == login.local.child IN
    /\ ch.pc = "exec" => (ch.program = "/usr/bin/login" /\ ch.saw = "ok")
    /\ ch.pc = "exited" => ch.status = 1
    /\ ch.saw \in {"missing", "not_executable"} => (ch.pc = "exited" /\ ch.program = "none")

\* C18 witness: the login program was there when the session was created
\* and not executable when the child tested it, and the child exited.
C18_Witness ==
    /\ login.local.pc = "connected"
    /\ login.local.child.saw = "not_executable"
    /\ login.local.child.pc = "exited" /\ login.local.child.status = 1

Rank(s) == CASE s = "waiting_login" -> 1 [] s = "waiting_password" -> 2 [] s = "done" -> 3 [] OTHER -> 0

CloseSess == "s1"

\* TelnetProtocol.close: sleep(0.1) after each logout command,
\* wait_for(self._read_task, timeout=1.0), wait_for(wait_closed(), timeout=2.0).
AwaitsWithTimeout(r) == r.closePc \in {"t_cancel", "t_writer", "t_final"}

\* SerialProtocol.close `await self._read_task`, LocalProtocol.close
\* `await self.reader_task`.
AwaitsReaderTask(r) == r.closePc \in {"s_writer", "l_fds"}

\* The timer of the await fires and close() runs on.
CloseTimerFires ==
    /\ AwaitsWithTimeout(sess[CloseSess])
    /\ DriverCloseResume(CloseSess)

\* The cancelled read task ends and close() runs on.
CloseReaderEnded ==
    /\ AwaitsReaderTask(sess[CloseSess])
    /\ DriverCloseResume(CloseSess)

NextClose ==
    \/ \E k \in Kinds : CreateConnection(CloseSess, k)
    \/ ReaderData(CloseSess)
    \/ Handoff(CloseSess)
    \/ DriverReadOutput(CloseSess)
    \/ \E joined \in BOOLEAN : DriverClose(CloseSess, joined)
    \/ CloseTimerFires
    \/ CloseReaderEnded

\* The event loop runs its timers; nothing makes a read task end.
FairClose == WF_vars(CloseTimerFires)

SpecCloseFair == Init /\ [][NextClose]_vars /\ FairClose

C23_ClosedIsForever ==
    [][\A s \in Sess :
          sess[s].closed
              => /\ sess'[s].closed
                 /\ ~sess[s].connected => ~sess'[s].connected]_vars

\* C23 witness: a send was called on a session that was already closed, and
\* the session is still closed and not connected.
C23_Witness ==
    \E s \in DriverSess :
        /\ sess[s].closed /\ ~sess[s].connected
        /\ sess[s].lastCall.op = "send_data" /\ sess[s].lastCall.wasClosed
        /\ sess[s].lastCall.attempted

\* C27: when an adapter's read loop ends on a connection reset, the session
\* is left closed with a stored cause, and read_output then ends normally
\* (the generator goes to "ended"; it has no raising outcome).
C27_ReadFailureRecorded ==
    [][\A s \in DriverSess :
          (ReaderEnd(s) /\ sess[s].peer = "reset" /\ sess'[s].reader = "done")
              => /\ sess'[s].closed
                 /\ sess'[s].last_error # "none"
                 /\ ReadOutputEnabled(sess'[s]) => ReadOutput(sess'[s]).gen = "ended"]_vars

StatsMatch(stats, tbl, objs) ==
    /\ stats.active_connections = Cardinality(DOMAIN tbl)
    /\ stats.total_connections = Cardinality({s \in Sess : objs[s].kind # "none"})

\* C24: whatever adds, gets, removes and sweeps have run, and wherever they
\* are suspended, the active count equals the number of entries in the table
\* and the total equals the number of add calls made so far; the total never
\* decreases.
C24_StatsMatchTable ==
    /\ StatsMatch(connection_stats, connections, sess)
    /\ [][/\ StatsMatch(connection_stats', connections', sess')
          /\ connection_stats'.total_connections
                 >= connection_stats.total_connections]_vars

\* C24 witness: two sessions were added, one entry is gone again, and a call
\* on the table is suspended inside a close().
C24_Witness ==
    /\ connection_stats.total_connections = 2
    /\ connection_stats.active_connections = 1
    /\ reg.removed # {}
    /\ \E c \in Callers : rm[c].pc = "in_close"

\* The sweep's call returned in this step.
SweepEnds == rm["sweep"].pc' = "idle" /\ reg'.last.op = "sweep"

\* C25: the idle sweep removes, closing each, exactly the sessions idle for
\* longer than the threshold at its scan, leaves the other entries as they
\* are, and returns the number it selected.  A sweep that runs to its end in
\* one step is compared with its scan; one that was suspended in a close()
\* returns the number its scan selected, its last selected entry is gone and
\* that session is closed.
C25_SweepRemovesIdle ==
    [][/\ \A m \in MaxIdles, j \in Joins :
             (RegSweep(m, j) /\ SweepEnds)
                 => LET sel == {Inactive(World, m)[i] : i \in 1..Len(Inactive(World, m))}
                    IN /\ reg'.last.result = "returned"
                       /\ reg'.last.n = Cardinality(sel)
                       /\ DOMAIN connections' = DOMAIN connections \ sel
                       /\ \A id \in DOMAIN connections' : connections'[id] = connections[id]
                       /\ \A id \in sel : sess'[connections[id].connection].closed
       /\ \A j \in Joins :
             (RegSweepResume(j) /\ SweepEnds)
                 => /\ reg'.last.result = "returned"
                    /\ reg'.last.n = rm["sweep"].n
                    /\ sess'[rm["sweep"].conn].closed
                    /\ \A id \in DOMAIN connections' :
                           connections'[id].connection # rm["sweep"].conn]_vars

\* C26: a client that attaches to an id that is not in the registry is
\* answered with close code 4000; in no step of that endpoint call is a
\* bridge task started, a session changed (so no close() runs), or the
\* table or its counters changed.
C26_UnknownIdRejected ==
    [][(bridge' # bridge /\ bridge'.main \in {"rejecting", "ws_close", "done"}
            /\ bridge'.conn = "none")
          => /\ bridge'.close_code = 4000
             /\ bridge'.input = "none" /\ bridge'.output = "none"
             /\ sess' = sess
             /\ connections' = connections
             /\ connection_stats' = connection_stats]_vars

\* C26 witness: the endpoint call for an unknown id is over, with 4000 sent,
\* while a session registered under another id is still in the table.
C26_Witness ==
    /\ bridge.main = "done" /\ bridge.conn = "none" /\ bridge.close_code = 4000
    /\ connections # NoEntries
    /\ bridge.id \notin DOMAIN connections

\* ------------------------------------ SpecDecode: bytes received, to text
\* The SSH thread and the Telnet read loop convert each chunk they receive
\* with _convert_server_output(bytes) / _decode_bytes_with_auto_detection.
\* Bytes are 0..255, text is a sequence of code points; a chunk is any
\* sequence of at most MaxBytes bytes of RecvBytes, which holds an ASCII
\* letter, the bytes of two-, three- and four-byte UTF-8 characters (all of
\* them GBK lead and trail bytes too), a lead byte whose continuations here
\* give a surrogate, and a byte that no encoding accepts.
MaxBytes == 4
RecvBytes == {65, 195, 169, 228, 184, 173, 240, 159, 237, 255}

Cont(b) == b \in 128..191

\* The length of the well-formed UTF-8 character d starts with, as the
\* strict decoder of bytes.decode('utf-8') accepts it; 0 if there is none.
Utf8Len(d) ==
    LET n == Len(d)
        b1 == d[1]
        c(i) == n >= i /\ Cont(d[i])
    IN CASE b1 < 128 -> 1
         [] b1 \in 194..223 -> IF c(2) THEN 2 ELSE 0
         [] b1 = 224 -> IF n >= 2 /\ d[2] \in 160..191 /\ c(3) THEN 3 ELSE 0
         [] b1 \in (225..236) \cup (238..239) -> IF c(2) /\ c(3) THEN 3 ELSE 0
         [] b1 = 237 -> IF n >= 2 /\ d[2] \in 128..159 /\ c(3) THEN 3 ELSE 0
         [] b1 = 240 -> IF n >= 2 /\ d[2] \in 144..191 /\ c(3) /\ c(4) THEN 4 ELSE 0
         [] b1 \in 241..243 -> IF c(2) /\ c(3) /\ c(4) THEN 4 ELSE 0
         [] b1 = 244 -> IF n >= 2 /\ d[2] \in 128..143 /\ c(3) /\ c(4) THEN 4 ELSE 0
         [] OTHER -> 0

\* The code point of the k-byte character d starts with.
Utf8Cp(d, k) ==
    CASE k = 1 -> d[1]
      [] k = 2 -> (d[1] % 32) * 64 + (d[2] % 64)
      [] k = 3 -> (d[1] % 16) * 4096 + (d[2] % 64) * 64 + (d[3] % 64)
      [] k = 4 -> (d[1] % 8) * 262144 + (d[2] % 64) * 4096 + (d[3] % 64) * 64 + (d[4] % 64)

\* bytes.decode('utf-8', errors='strict'): the text, or UnicodeDecodeError.
RECURSIVE DecodeUtf8(_)
DecodeUtf8(d) ==
    IF d = <<>> THEN [ok |-> TRUE, text |-> <<>>]
    ELSE LET k == Utf8Len(d) IN
         IF k = 0 THEN [ok |-> FALSE, text |-> <<>>]
         ELSE LET rest == DecodeUtf8(SubSeq(d, k + 1, Len(d))) IN
              [ok |-> rest.ok, text |-> <<Utf8Cp(d, k)>> \o rest.text]

\* _is_utf8_bytes
IsUtf8BytesFirstOnly(d) == Utf8Len(d) > 0

IsUtf8Bytes(d) == DecodeUtf8(d).ok

\* bytes.decode('gbk', errors='replace'): a byte below 128 is itself; a lead
\* byte 0x81..0xFE with a trail byte 0x40..0xFE other than 0x7F is one
\* character, written <<lead, trail>> here (its code point, or U+FFFD for an
\* unassigned pair, is the codec's table); any other byte is replaced by
\* U+FFFD (65533) and decoding goes on with the next byte.
RECURSIVE DecodeGbkReplace(_)
DecodeGbkReplace(d) ==
    IF d = <<>> THEN <<>>
    ELSE IF d[1] < 128 THEN <<d[1]>> \o DecodeGbkReplace(Tail(d))
    ELSE IF /\ d[1] \in 129..254 /\ Len(d) >= 2
            /\ d[2] \in 64..254 /\ d[2] # 127
         THEN <<<<d[1], d[2]>>>> \o DecodeGbkReplace(SubSeq(d, 3, Len(d)))
         ELSE <<65533>> \o DecodeGbkReplace(Tail(d))

\* SSHProtocol._convert_server_output(bytes) and
\* TelnetProtocol._decode_bytes_with_auto_detection: empty input is "", bytes
\* that pass _is_utf8_bytes are decoded strictly as UTF-8, anything else as
\* GBK with replacement; the handlers around the GBK decode catch only
\* UnicodeDecodeError, which errors='replace' never raises, and the Telnet
\* function has no handler around the strict decode.
ConvertServerOutput(d) ==
    IF d = <<>> THEN [path |-> "empty", text |-> <<>>]
    ELSE IF IsUtf8Bytes(d)
    THEN LET u == DecodeUtf8(d) IN
         IF u.ok THEN [path |-> "utf8", text |-> u.text]
         ELSE [path |-> "raised", text |-> <<>>]
    ELSE [path |-> "gbk", text |-> DecodeGbkReplace(d)]

\* recv() / reader.read() has one more byte in the chunk it returns.
RecvByte(b) ==
    /\ login.conv.pc = "recv" /\ Len(login.conv.data) < MaxBytes
    /\ login' = [login EXCEPT !.conv.data = Append(@, b)]
    /\ UNCHANGED <<sess, driver, regVars, bridge>>

\* The read loop converts the chunk it received.
Decode ==
    /\ login.conv.pc = "recv" /\ login.conv.data # <<>>
    /\ LET o == ConvertServerOutput(login.conv.data) IN
        login' = [login EXCEPT !.conv.pc = "done", !.conv.path = o.path,
                               !.conv.text = o.text]
    /\ UNCHANGED <<sess, driver, regVars, bridge>>

\* The loop goes round: the next recv().
NextChunk ==
    /\ login.conv.pc = "done"
    /\ login' = [login EXCEPT !.conv = ConvIdle]
    /\ UNCHANGED <<sess, driver, regVars, bridge>>

NextDecode ==
    \/ \E b \in RecvBytes : RecvByte(b)
    \/ Decode
    \/ NextChunk

SpecDecode == Init /\ [][NextDecode]_vars

\* str.encode('utf-8') of one code point: the bytes, or <<>> for a surrogate
\* or a number that is no code point (which cannot be encoded).
EncodeUtf8(cp) ==
    CASE cp < 0 -> <<>>
      [] cp < 128 -> <<cp>>
      [] cp < 2048 -> <<192 + (cp \div 64), 128 + (cp % 64)>>
      [] cp \in 55296..57343 -> <<>>
      [] cp < 65536 -> <<224 + (cp \div 4096), 128 + ((cp \div 64) % 64), 128 + (cp % 64)>>
      [] cp < 1114112 -> <<240 + (cp \div 262144), 128 + ((cp \div 4096) % 64),
                           128 + ((cp \div 64) % 64), 128 + (cp % 64)>>
      [] OTHER -> <<>>

RECURSIVE EncodeText(_)
EncodeText(t) == IF t = <<>> THEN <<>> ELSE EncodeUtf8(Head(t)) \o EncodeText(Tail(t))

\* d is the UTF-8 encoding of some text: it splits into pieces of one to
\* four bytes, each the encoding of the code point its payload bits spell.
RECURSIVE WellFormed(_)
WellFormed(d) ==
    \/ d = <<>>
    \/ \E k \in 1..(IF Len(d) < 4 THEN Len(d) ELSE 4) :
          /\ EncodeUtf8(Utf8Cp(d, k)) = SubSeq(d, 1, k)
          /\ WellFormed(SubSeq(d, k + 1, Len(d)))

\* C28: the conversion of a received chunk never raises; pure ASCII comes
\* out unchanged; the UTF-8 encoding of a text is decoded on the UTF-8 path
\* to that text (it encodes back to the chunk), with no replacement
\* character put in; and only a chunk that is no UTF-8 encoding of any text
\* goes to the GBK fallback.
C28_ConversionTotalAndOrdered ==
    login.conv.pc = "done" =>
        LET d == login.conv.data
            t == login.conv.text
        IN /\ login.conv.path \in {"utf8", "gbk"}
           /\ (\A i \in 1..Len(d) : d[i] < 128) => t = d
           /\ WellFormed(d) => /\ login.conv.path = "utf8"
                               /\ EncodeText(t) = d
                               /\ \A i \in 1..Len(t) : t[i] # 65533
           /\ login.conv.path = "gbk" => ~WellFormed(d)

\* C28 witness: a chunk holding a three-byte UTF-8 character and an ASCII
\* letter was decoded on the UTF-8 path to two characters.
C28_Witness ==
    /\ login.conv.pc = "done" /\ login.conv.path = "utf8"
    /\ login.conv.data = <<228, 184, 173, 65>>
    /\ login.conv.text = <<20013, 65>>

\* ------------------------- SpecCreate: a session is created, SSH data sent
\* One creation request goes through ConnectionFactory.create_connection
\* and the adapter's connect(); on an SSH session that came up, payloads of
\* sizes around the multiples of the chunk size are sent with send_data.
MaxPayloadChunks == 3
ChunkSize == 4096
ChunkThreshold == 4096
New == "s1"

\* class ConnectionType: the names of its members.
ConnectionTypeMembers == {"SSH", "TELNET", "USBSERIAL"}

\* The kinds a caller can ask for: the three values of the enum, "local",
\* and one that no adapter exists for.
RequestKinds == {"ssh", "telnet", "usbserial", "local", "rdp"}
PrivateKeys == {"none", "RSAKey", "ECDSAKey", "Ed25519Key", "DSSKey", "garbage"}
Requests ==
    [connection_type : RequestKinds, private_key : PrivateKeys, password : BOOLEAN,
     has_dss : BOOLEAN, login_exists : BOOLEAN]

\* ConnectionFactory.create_connection up to `protocol.connect()`: the
\* adapter class built, or the exception.  The test of the fourth branch
\* evaluates ConnectionType.LOCAL, which raises AttributeError when the enum
\* has no member of that name.
FactoryBuild(rq) ==
    LET built(k) == [protocol |-> k, error |-> "none"]
        raised(e) == [protocol |-> "none", error |-> e]
    IN CASE rq.connection_type = "ssh" -> built("ssh")
         [] rq.connection_type = "telnet" -> built("telnet")
         [] rq.connection_type = "usbserial" -> built("serial")
         [] OTHER ->
              IF "LOCAL" \notin ConnectionTypeMembers THEN raised("AttributeError")
              ELSE IF rq.connection_type = "local"
                   THEN IF ~rq.login_exists THEN raised("ValueError") ELSE built("local")
                   ELSE raised("ValueError")

\* SSHProtocol._parse_private_key: the key classes are tried in order, DSSKey
\* only if paramiko has it; the first that loads the text is returned, and
\* "error" stands for ValueError("Unable to parse private key").
ParsePrivateKey(key, has_dss) ==
    LET key_types == <<"RSAKey", "ECDSAKey", "Ed25519Key">>
                        \o (IF has_dss THEN <<"DSSKey">> ELSE <<>>)
        loads == {i \in 1..Len(key_types) : key_types[i] = key}
    IN IF loads = {} THEN "error"
       ELSE key_types[CHOOSE i \in loads : \A j \in loads : i <= j]

\* SSHProtocol.connect, `# Handle authentication`: what is added to
\* connect_kwargs, or the ValueError raised before ssh_client.connect.
SelectAuthPasswordFirst(rq) ==
    IF rq.password
    THEN [ok |-> TRUE, kwargs |-> [NoKwargs EXCEPT !.password = TRUE]]
    ELSE IF rq.private_key # "none"
    THEN LET k == ParsePrivateKey(rq.private_key, rq.has_dss) IN
         IF k = "error" THEN [ok |-> FALSE, kwargs |-> NoKwargs]
         ELSE [ok |-> TRUE, kwargs |-> [NoKwargs EXCEPT !.pkey = k]]
    ELSE [ok |-> FALSE, kwargs |-> NoKwargs]

SelectAuth(rq) ==
    IF rq.private_key # "none"
    THEN LET k == ParsePrivateKey(rq.private_key, rq.has_dss) IN
         IF k = "error" THEN [ok |-> FALSE, kwargs |-> NoKwargs]
         ELSE [ok |-> TRUE, kwargs |-> [NoKwargs EXCEPT !.pkey = k]]
    ELSE IF rq.password
    THEN [ok |-> TRUE, kwargs |-> [NoKwargs EXCEPT !.password = TRUE]]
    ELSE [ok |-> FALSE, kwargs |-> NoKwargs]

\* create_connection is called: the factory builds the adapter and awaits
\* its connect(), which runs to its first await on the transport (for SSH,
\* ssh_client.connect in the executor) or fails before it.
CreateRequest(rq) ==
    /\ login.create.pc = "idle"
    /\ LET f == FactoryBuild(rq)
           a == SelectAuth(rq)
           c0 == [login.create EXCEPT !.request = rq, !.protocol = f.protocol,
                                      !.error = f.error]
       IN login' = [login EXCEPT !.create =
            IF f.protocol = "none" THEN [c0 EXCEPT !.pc = "failed"]
            ELSE IF f.protocol = "ssh" /\ ~a.ok
            THEN [c0 EXCEPT !.pc = "failed", !.connect_called = TRUE,
                            !.error = "ValueError"]
            ELSE [c0 EXCEPT !.pc = "connecting", !.connect_called = TRUE,
                            !.transport = TRUE,
                            !.kwargs = IF f.protocol = "ssh" THEN a.kwargs ELSE @]]
    /\ UNCHANGED <<sess, driver, regVars, bridge>>

\* The transport connection is made or fails, and connect() ends.
ConnectReturns(outcome) ==
    /\ login.create.pc = "connecting"
    /\ IF ConnectSucceeded(outcome)
       THEN /\ sess' = [sess EXCEPT ![New] = Connected(login.create.protocol)]
            /\ login' = [login EXCEPT !.create.pc = "created"]
       ELSE /\ login' = [login EXCEPT !.create.pc = "failed", !.create.error = "ValueError"]
            /\ UNCHANGED sess
    /\ UNCHANGED <<driver, regVars, bridge>>

\* The sizes, in bytes of UTF-8, of the payloads sent.
PayloadSizes ==
    {n \in 1..(MaxPayloadChunks * ChunkSize + 1) :
        \E k \in 0..MaxPayloadChunks, d \in {-1, 0, 1} : n = k * ChunkSize + d}

\* `current_chunk_size = min(chunk_size, total_size - sent_size)`
CurrentChunkSizeWhole(total_size, sent_size) == ChunkSize

CurrentChunkSize(total_size, sent_size) ==
    IF ChunkSize < total_size - sent_size THEN ChunkSize ELSE total_size - sent_size

\* send_data on the SSH session: a payload of more than 4096 bytes goes to
\* _send_data_chunked, a smaller one is one channel.send.
SSHSendData(n) ==
    /\ login.create.pc = "created" /\ login.create.protocol = "ssh"
    /\ ~NotConnected(sess[New])
    /\ login' = [login EXCEPT !.create =
            IF n > ChunkThreshold
            THEN [@ EXCEPT !.pc = "sending", !.payload = n, !.sent_size = 0,
                           !.writes = <<>>, !.short = FALSE]
            ELSE [@ EXCEPT !.pc = "sent", !.payload = n, !.sent_size = n,
                           !.writes = <<[at |-> 0, len |-> n]>>, !.short = FALSE]]
    /\ UNCHANGED <<sess, driver, regVars, bridge>>

\* One round of the while loop of _send_data_chunked: the next slice is
\* handed to channel.send in the executor.  The number channel.send returns
\* is not looked at, so a short write ("partial") goes on like a whole one;
\* an exception leaves the loop and send_data.
SSHSendChunk(out) ==
    /\ login.create.pc = "sending"
    /\ LET c == login.create
           current_chunk_size == CurrentChunkSize(c.payload, c.sent_size)
           sent == c.sent_size + current_chunk_size
       IN login' = [login EXCEPT !.create =
            IF out = "error"
            THEN [c EXCEPT !.pc = "send_failed",
                           !.writes = Append(@, [at |-> c.sent_size, len |-> current_chunk_size])]
            ELSE [c EXCEPT !.pc = IF sent < c.payload THEN "sending" ELSE "sent",
                           !.sent_size = sent,
                           !.writes = Append(@, [at |-> c.sent_size, len |-> current_chunk_size]),
                           !.short = @ \/ out = "partial"]]
    /\ UNCHANGED <<sess, driver, regVars, bridge>>

\* send_data returned or raised; the caller may send again.
SSHSendReturns ==
    /\ login.create.pc \in {"sent", "send_failed"}
    /\ login' = [login EXCEPT !.create =
                    [@ EXCEPT !.pc = "created", !.payload = 0, !.sent_size = 0,
                              !.writes = <<>>, !.short = FALSE]]
    /\ UNCHANGED <<sess, driver, regVars, bridge>>

NextCreate ==
    \/ \E rq \in Requests : CreateRequest(rq)
    \/ \E o \in ConnectOutcomes : ConnectReturns(o)
    \/ \E n \in PayloadSizes : SSHSendData(n)
    \/ \E out \in {"ok", "partial", "error"} : SSHSendChunk(out)
    \/ SSHSendReturns

SpecCreate == Init /\ [][NextCreate]_vars

C22_ChunkedSend ==
    LET c == login.create
        w == c.writes
    IN (c.pc \in {"sending", "sent", "send_failed"} /\ c.payload > ChunkThreshold) =>
          /\ \A i \in 1..Len(w) :
                /\ w[i].len \in 1..ChunkSize
                /\ w[i].at = IF i = 1 THEN 0 ELSE w[i - 1].at + w[i - 1].len
                /\ w[i].at + w[i].len <= c.payload
          /\ c.pc = "sent" =>
                /\ w[Len(w)].at + w[Len(w)].len = c.payload
                /\ Len(w) = (c.payload + ChunkSize - 1) \div ChunkSize

\* C22 witness: a payload of two whole chunks and one byte was sent in
\* three writes, the last of one byte.
C22_Witness ==
    /\ login.create.pc = "sent" /\ login.create.payload = 2 * ChunkSize + 1
    /\ Len(login.create.writes) = 3
    /\ login.create.writes[3] = [at |-> 2 * ChunkSize, len |-> 1]

\* C30: creation builds an adapter and calls its connect() for each of the
\* kinds ssh, telnet, serial and local, and fails, with nothing built and
\* nothing connected, for any other kind and for local when the login
\* program is absent.
C30_FourKindsCreated ==
    LET c == login.create
        rq == c.request
        kind == CASE rq.connection_type = "usbserial" -> "serial"
                  [] OTHER -> rq.connection_type
    IN c.pc # "idle" =>
          IF kind \in Kinds /\ ~(kind = "local" /\ ~rq.login_exists)
          THEN c.protocol = kind /\ c.connect_called
          ELSE c.pc = "failed" /\ c.protocol = "none" /\ ~c.connect_called /\ ~c.transport

\* C31: a failed write of the serial adapter's send_data or send_raw_data is
\* fatal: the call made its one write, raised, and left the session closed
\* and not connected.
C31_SerialWriteFailureFatal ==
    \A s \in DriverSess :
        (/\ sess[s].kind = "serial"
         /\ sess[s].lastCall.op \in {"send_data", "send_raw_data"}
         /\ sess[s].lastCall.attempted /\ sess[s].lastCall.result # "ok")
            => /\ sess[s].lastCall.result = "raised"
               /\ sess[s].closed /\ ~sess[s].connected

\* C31 witness: send_raw_data failed on a serial session that was open when
\* it was called.
C31_Witness ==
    \E s \in DriverSess :
        /\ sess[s].kind = "serial"
        /\ sess[s].lastCall = [op |-> "send_raw_data", wasClosed |-> FALSE,
                               attempted |-> TRUE, result |-> "raised"]
        /\ sess[s].closed /\ ~sess[s].connected

\* C32: resize_terminal on a serial or a Telnet session is a no-op: nothing
\* is written to the transport and no field of the session changes (but the
\* record of the call itself), whatever state the session and its peer are
\* in.
C32_ResizeNoOp ==
    [][\A s \in DriverSess :
          (/\ sess[s].kind \in {"serial", "telnet"}
           /\ sess'[s].sends > sess[s].sends
           /\ sess'[s].lastCall.op = "resize_terminal")
              => /\ ~sess'[s].lastCall.attempted
                 /\ sess'[s] = [sess[s] EXCEPT !.sends = @ + 1,
                                               !.lastCall = sess'[s].lastCall]]_vars

\* C32 witness: resize_terminal was called on a connected Telnet session
\* whose peer had reset the connection, and the session is still connected
\* and open.
C32_Witness ==
    \E s \in DriverSess :
        /\ sess[s].kind = "telnet" /\ sess[s].peer = "reset"
        /\ sess[s].lastCall.op = "resize_terminal"
        /\ sess[s].connected /\ ~sess[s].closed

\* ------------------------------ SpecLocalClose: a local session is torn down
\* A LocalProtocol object whose connect() succeeded, or failed after
\* pty.openpty() (its except clause awaits close() with both descriptors
\* open and no child), is closed by its caller, by a failed write or by its
\* own reader, with any of the teardown system calls raising.
LocalSess == "s1"
CloseFaults == SUBSET {"fd_close", "slave_close", "kill"}

\* connect() returned True.
LocalOpen(f) ==
    /\ sess[LocalSess].kind = "none"
    /\ sess' = [sess EXCEPT ![LocalSess] = [Connected("local") EXCEPT !.faults = f]]
    /\ UNCHANGED <<login, driver, regVars, bridge>>

\* connect() raised between openpty() and the fork, and awaited close().
LocalConnectFails(f) ==
    /\ sess[LocalSess].kind = "none"
    /\ sess' = [sess EXCEPT ![LocalSess] =
                  CloseStart([Constructed("local") EXCEPT
                                 !.master_fd = TRUE, !.slave_fd = TRUE,
                                 !.open = {"master_fd", "slave_fd"}, !.faults = f],
                             "driver", FALSE)]
    /\ UNCHANGED <<login, driver, regVars, bridge>>

NextLocalClose ==
    \/ \E f \in CloseFaults : LocalOpen(f)
    \/ \E f \in CloseFaults : LocalConnectFails(f)
    \/ PeerEnds(LocalSess, "eof")
    \/ ReaderData(LocalSess)
    \/ ReaderEnd(LocalSess)
    \/ ReaderCloseResume(LocalSess)
    \/ DriverReadOutput(LocalSess)
    \/ \E op \in SendOps, out \in {"ok", "error"} : DriverSend(LocalSess, op, out)
    \/ DriverClose(LocalSess, FALSE)
    \/ DriverCloseResume(LocalSess)

SpecLocalClose == Init /\ [][NextLocalClose]_vars

\* C33: when the first close() of a local PTY session has returned, every
\* teardown step was attempted for what the object held (the reader was
\* stopped, the master and slave descriptors closed, the child signalled
\* and reaped without blocking), whichever of the steps failed, and the
\* master descriptor, slave descriptor and pid are cleared.
C33_LocalTeardownBestEffort ==
    LET r == sess[LocalSess] IN
    (r.kind = "local" /\ r.closed /\ r.closePc = "none") =>
        /\ ~r.master_fd /\ ~r.slave_fd /\ ~r.pid
        /\ r.fx["fd_close"] = 1
        /\ IF r.reader = "none"
           THEN r.fx["slave_close"] = 1
           ELSE r.reader = "done" /\ r.fx["kill"] = 1 /\ r.fx["waitpid"] = 1

\* --------------------------- SpecRemove: removal of objects whose close() raises
\* The table and its callers as in SpecRegistry; a registered object's
\* close() either is the adapter's, or ends by raising an Exception.
RemoveFaults == {{}, {"close"}}

\* A creation request that succeeds, for an object with the given close();
\* its id is a fresh uuid4, never one that was used before.
InitiateFaulty(id, s, k, f) ==
    /\ s = NextObject
    /\ id \notin DOMAIN reg.addedAs
    /\ SetWorld(AddConnection([World EXCEPT !.sess[s] = [Connected(k) EXCEPT !.faults = f]],
                              id, s))
    /\ UNCHANGED <<login, driver, bridge>>

NextRemove ==
    \/ \E id \in Ids, s \in Sess, k \in Kinds, f \in RemoveFaults : InitiateFaulty(id, s, k, f)
    \/ \E c \in RegTasks, id \in Ids, j \in Joins : RegRemove(c, id, j)
    \/ \E c \in RegTasks : RegRemoveResume(c)
    \/ \E s \in Sess : PeerEnds(s, "eof")
    \/ \E s \in Sess : ReaderEnd(s)
    \/ \E s \in Sess : ReaderCloseResume(s)

SpecRemove == Init /\ [][NextRemove]_vars

\* C34: whenever an entry leaves the table, a remove_connection call has
\* invoked the close() of its session first (in the same step, or it was
\* suspended inside that close()) and the active count goes down by one;
\* and when a remove_connection call that found its id in the table ends,
\* the entry is gone and the active count is the number of entries, also
\* when close() raised.
C34_RemoveClosesThenDeletes ==
    [][/\ \A id \in DOMAIN connections \ DOMAIN connections' :
             LET s == connections[id].connection IN
             /\ \/ sess'[s].closeCalls > sess[s].closeCalls
                \/ \E c \in RegTasks :
                      rm[c].pc = "in_close" /\ rm[c].id = id /\ rm[c].conn = s
             /\ connection_stats'.active_connections
                   = connection_stats.active_connections - 1
       /\ (reg'.last.op = "remove" /\ reg'.last.result # "warned")
             => /\ reg'.last.result \in {"removed", "removed_logged", "KeyError"}
                /\ reg'.last.id \notin DOMAIN connections'
                /\ connection_stats'.active_connections = Cardinality(DOMAIN connections')]_vars

\* C34 witness: a remove_connection whose close() raised has logged the
\* error and deleted its entry; the other entry is still in the table.
C34_Witness ==
    /\ reg.last.op = "remove" /\ reg.last.result = "removed_logged"
    /\ reg.last.id \in reg.removed /\ reg.last.id \notin DOMAIN connections
    /\ connection_stats.active_connections = 1
    /\ connection_stats.total_connections = 2

\* ------------------------------ SpecLocalBuffer: the reads of a local session
\* The parent side of one LocalProtocol alone: what _read_from_pty reads,
\* with prompts cut between reads and reads longer than the buffer.
NextLocalBuffer ==
    \/ \E user \in BOOLEAN, found \in LoginProgram : LocalCreate(user, found)
    \/ \E c \in PtyBufferChunks : LocalPtyRead(c)
    \/ \E out \in {"ok", "error"} : LocalAutoLoginWrite(out)
    \/ LocalClose
    \/ DriverCloseResume(Loc)

SpecLocalBuffer == Init /\ [][NextLocalBuffer]_vars

\* The prompts the automaton looks for in its current state.
PromptsOf(s) ==
    CASE s = "waiting_login" -> LoginPrompts
      [] s = "waiting_password" -> PasswordPrompts
      [] OTHER -> {}

\* Prompt p stands, in any case of letters, in the last BufferLimit
\* characters of what was buffered followed by text.
WithinLast(buffered, text, p) ==
    LET n == Len(buffered) + Len(text)
        at(i) == IF i <= Len(buffered) THEN buffered[i] ELSE text[i - Len(buffered)]
        low(i) == IF at(i) = "L" THEN "l" ELSE IF at(i) = "P" THEN "p" ELSE at(i)
        first == IF n > BufferLimit THEN n - BufferLimit + 1 ELSE 1
    IN \E i \in first..(n - Len(p) + 1) : \A k \in 1..Len(p) : low(i + k - 1) = p[k]

\* C35: after a chunk is processed the rolling buffer of the local PTY
\* automaton holds at most 500 characters, and the prompt of the current
\* state (username or password) is detected in the very read that brings
\* its last fragment, whether it came in one chunk or split over several,
\* exactly when the whole prompt lies within the last 500 characters
\* buffered.
C35_RollingBufferDetects ==
    [][\A c \in PtyBufferChunks :
          LocalPtyRead(c) =>
              /\ Len(login'.local.output_buffer) <= BufferLimit
              /\ (login'.local.handler = "sleeping")
                    <=> \E p \in PromptsOf(login.local.auto_login_state) :
                           WithinLast(login.local.output_buffer, PtyText(c), p)]_vars

\* C35 witness: after the username was written, the password prompt came
\* cut between two reads behind other text, and the read of its second
\* part has detected it.
C35_Witness ==
    /\ login.local.auto_login_state = "waiting_password"
    /\ login.local.written = <<"username">>
    /\ login.local.handler = "sleeping"
    /\ login.local.output_buffer
          = PtyText("text") \o PtyText("password_head") \o PtyText("password_tail")

\* ------------------------------ SpecConnect: one creation request, to its add
\* initiate_connection for one Telnet session with credentials (the login
\* sequence of SpecTelnetLogin) or for one SSH session, whose connect()
\* starts the read thread and then sleeps 1.5 s before it sends its wake-up
\* keys; the peer may close or reset the transport at any time.
ConnId == "x"
SshSess == "s2"

\* connect() of the Telnet session has returned True: create_connection
\* returns and add_connection runs, with no await that suspends in between.
Registering == login.result = "true" /\ ConnId \notin DOMAIN reg.addedAs

TelnetRegister ==
    /\ Registering
    /\ SetWorld(AddConnection(World, ConnId, Tel))
    /\ UNCHANGED <<login, driver, bridge>>

\* SSHProtocol.connect up to `await asyncio.sleep(1.5)`: connected = True and
\* the read thread is started.
SSHConnectHandshake ==
    /\ login.pc = "idle" /\ sess[Tel].kind = "none" /\ sess[SshSess].kind = "none"
    /\ sess' = [sess EXCEPT ![SshSess] = Connected("ssh")]
    /\ driver' = [driver EXCEPT ![SshSess] = "waking"]
    /\ UNCHANGED <<login, regVars, bridge>>

\* The sleep ends: send_data(' \b\r') inside `try ... except Exception` that
\* only logs, `return True`; create_connection returns the object and
\* initiate_connection adds it.
SSHConnectWake(out) ==
    /\ driver[SshSess] = "waking"
    /\ out \in Outcomes(sess[SshSess])
    /\ SetWorld(AddConnection([World EXCEPT !.sess[SshSess] = Send(@, "send_data", out, "driver")],
                              ConnId, SshSess))
    /\ driver' = [driver EXCEPT ![SshSess] = "idle"]
    /\ UNCHANGED <<login, bridge>>

NextConnect ==
    \/ TelnetRegister
    \/ ~Registering /\ sess[SshSess].kind = "none" /\ NextTelnetLogin
    \/ SSHConnectHandshake
    \/ \E out \in WriteOutcomes : SSHConnectWake(out)
    \/ \E e \in {"eof", "reset"} : PeerEnds(SshSess, e)
    \/ ReaderData(SshSess)
    \/ Handoff(SshSess)
    \/ ReaderEnd(SshSess)

SpecConnect == Init /\ [][NextConnect]_vars

\* C36: in the step that adds a session to the registry, the session's
\* closed flag is false and its connected flag is true, also when the peer
\* closed or reset the transport during the SSH wake-up wait or during the
\* Telnet login sequence.
C36_AddedOpenAndConnected ==
    [][\A id \in DOMAIN connections' \ DOMAIN connections :
          LET r == sess'[connections'[id].connection] IN ~r.closed /\ r.connected]_vars

\* ------------------------------------------- claims, SpecBridgeFair (relay)
\* C37: every chunk that is in the output relay of a session while the
\* session is not closed and a bridge is attached to it is eventually
\* yielded by read_output to that bridge, unless the client leaves: output
\* produced before the closure is not lost when the session closes.
C37_QueuedOutputYielded ==
    \A n \in 1..LiveChunks :
        (/\ bridge.output = "reading" /\ bridge.client = "connected"
         /\ ~sess[BridgeSess].closed
         /\ \E i \in 1..Len(sess[BridgeSess].queue) : sess[BridgeSess].queue[i] = n)
            ~> (\/ \E i \in 1..Len(sess[BridgeSess].delivered) :
                      sess[BridgeSess].delivered[i] = n
                \/ bridge.client # "connected")

\* ------------------------------ SpecShare: two client connections, one table
\* One session is registered; two WebSocket endpoints, t1 and t2, each for
\* an id its client chose.
\* rm[c].pc = "bridging" says endpoint c got its session from
\* get_connection and runs its two loops; its finally is its
\* remove_connection call.  The loops are those of SpecBridge, reduced to
\* what two endpoints can do to each other: take a chunk, and end.

\* websocket_endpoint up to the creation of its tasks: get_connection and
\* set_websocket, which test nothing about an endpoint attached already.  An
\* unknown id is closed with 4000 and the finally only logs a warning.
WsAttach(c, id) ==
    /\ rm[c].pc = "idle"
    /\ LET w == GetConnection(World, id)
           s == w.reg.last.result
       IN IF s = "none"
          THEN SetWorld(Return(RemoveStart(w, c, id, [x \in Sess |-> FALSE]), c))
          ELSE SetWorld([w EXCEPT !.rm[c] = [IdleFrame EXCEPT !.pc = "bridging",
                                                              !.id = id, !.conn = s]])
    /\ UNCHANGED <<login, driver, bridge>>

\* handle_output of endpoint c gets the next chunk of read_output().
WsOutput(c) ==
    /\ rm[c].pc = "bridging"
    /\ ~sess[rm[c].conn].closed /\ sess[rm[c].conn].queue # <<>>
    /\ sess' = [sess EXCEPT ![rm[c].conn] = ReadOutput(@)]
    /\ UNCHANGED <<login, driver, regVars, bridge>>

\* One loop of endpoint c ends (its client disconnects, or read_output ends
\* on the closed session), the other is cancelled, and the finally calls
\* remove_connection(connection_id).
WsEnds(c, j) ==
    /\ rm[c].pc = "bridging"
    /\ SetWorld(Return(RemoveStart(World, c, rm[c].id, j), c))
    /\ UNCHANGED <<login, driver, bridge>>

NextShare ==
    \/ \E k \in SweepKinds : InitiateConnection(ConnId, BridgeSess, k)
    \/ \E c \in RegTasks, id \in Ids : WsAttach(c, id)
    \/ \E c \in RegTasks : WsOutput(c)
    \/ \E c \in RegTasks, j \in Joins : WsEnds(c, j)
    \/ \E c \in RegTasks : RegRemoveResume(c)
    \/ PeerEnds(BridgeSess, "eof")
    \/ ReaderData(BridgeSess)
    \/ Handoff(BridgeSess)
    \/ ReaderEnd(BridgeSess)

SpecShare == Init /\ [][NextShare]_vars

\* C38: at most one endpoint is attached to a session at any time, and the
\* session an endpoint is bridging is registered and has not been closed
\* through the end of another endpoint.
C38_OneBridgePerSession ==
    \A c \in RegTasks :
        rm[c].pc = "bridging" =>
            /\ \A d \in RegTasks \ {c} : rm[d].conn # rm[c].conn
            /\ InTable(connections, rm[c].id)
            /\ sess[rm[c].conn].closeCalls = 0

\* ------------------------------ SpecInput: the inbound loop of one bridge
\* handle_input of an endpoint attached to an SSH session.  The client
\* sends text messages whenever it likes: {"data": s} with s of some size
\* in bytes, or {"resize": [cols, rows]} (size 0).
MaxMessages == 3      \* messages the client sends
MessageSizes == {0, 1, ChunkSize + 1, 2 * ChunkSize + 1}

SetInbound(v) ==
    /\ login' = [login EXCEPT !.inbound = v]
    /\ UNCHANGED <<sess, driver, regVars, bridge>>

\* The endpoint creates its input task.
HandleInputStart ==
    /\ login.inbound.pc = "idle"
    /\ SetInbound([login.inbound EXCEPT !.pc = "receiving"])

\* A message of the client arrives at the server.
ClientSends(n) ==
    /\ login.inbound.pc # "idle" /\ login.inbound.arrived < MaxMessages
    /\ SetInbound([login.inbound EXCEPT
            !.arrived = @ + 1,
            !.inbox = Append(@, [no |-> login.inbound.arrived + 1, size |-> n])])

\* handle_input starts a task per message and goes back to receive().
InputReadyAlways(v) == TRUE

\* handle_input is at `await websocket.receive()`: each send_data and
\* resize_terminal is awaited inside the loop body.
InputReady(v) == v.calls = <<>>

\* websocket.receive() returns the oldest message; handle_input calls
\* send_data(message["data"]) or resize_terminal(cols, rows), which runs to
\* its first await (run_in_executor of channel.send).
HandleInputReceive ==
    /\ login.inbound.pc = "receiving" /\ login.inbound.inbox # <<>>
    /\ InputReady(login.inbound)
    /\ LET msg == Head(login.inbound.inbox) IN
       SetInbound([login.inbound EXCEPT
            !.inbox = Tail(@),
            !.calls = Append(@, [no |-> msg.no, total_size |-> msg.size, sent_size |-> 0])])

\* The call for calls[i] hands its next slice to the channel (the whole
\* payload up to 4096 bytes, resize_pty for a resize) and, when that was
\* the last, returns; an exception of channel.send leaves send_data as a
\* ValueError and ends handle_input (`except Exception`).
HandleInputWrite(i, out) ==
    /\ i \in 1..Len(login.inbound.calls)
    /\ LET v == login.inbound
           c == v.calls[i]
           current_chunk_size == CurrentChunkSize(c.total_size, c.sent_size)
           sent == c.sent_size + current_chunk_size
           wrote == Append(v.wire, [no |-> c.no, at |-> c.sent_size, len |-> current_chunk_size])
       IN IF out = "error" /\ c.total_size > 0
          THEN SetInbound([v EXCEPT !.calls = DropAt(@, i), !.wire = wrote, !.pc = "done"])
          ELSE IF sent < c.total_size
          THEN SetInbound([v EXCEPT !.calls[i].sent_size = sent, !.wire = wrote])
          ELSE SetInbound([v EXCEPT !.calls = DropAt(@, i), !.wire = wrote,
                                    !.returned = Append(@, c.no)])

NextInput ==
    \/ HandleInputStart
    \/ \E n \in MessageSizes : ClientSends(n)
    \/ HandleInputReceive
    \/ \E i \in 1..MaxMessages, out \in {"ok", "error"} : HandleInputWrite(i, out)

SpecInput == Init /\ [][NextInput]_vars

\* C39: within one bridge a message is read only when the call for the
\* message before it has returned; the messages reach the transport in
\* the order they arrived, and the slices of one send follow each other
\* with no slice of another send between them.
C39_InboundInOrder ==
    [][LET v == login.inbound
           w == login'.inbound.wire
       IN /\ Len(login'.inbound.inbox) < Len(v.inbox) => v.calls = <<>>
          /\ \A k \in 1..(Len(w) - 1) :
                \/ w[k + 1].no > w[k].no /\ w[k + 1].at = 0
                \/ w[k + 1].no = w[k].no /\ w[k + 1].at = w[k].at + w[k].len
          /\ \A k \in 1..(Len(login'.inbound.returned) - 1) :
                login'.inbound.returned[k] < login'.inbound.returned[k + 1]]_vars

\* C39 witness: the first message went out in three slices and its call
\* returned; the second is half sent while the third waits unread.
C39_Witness ==
    LET v == login.inbound IN
    /\ v.returned = <<1>>
    /\ Len(v.wire) = 4 /\ v.wire[3].no = 1 /\ v.wire[4].no = 2
    /\ Len(v.calls) = 1 /\ v.calls[1].sent_size = ChunkSize
    /\ Len(v.inbox) = 1 /\ v.inbox[1].no = 3

\* ---------------------------------------- claims, SpecBridgeFair (lifetime)
\* C40: every session added to the registry is eventually closed and
\* removed from it, also when no client ever attaches to it.
C40_AddedEventuallyRemoved ==
    \A id \in Ids :
        InTable(connections, id)
            ~> (/\ id \in DOMAIN reg.addedAs /\ ~InTable(connections, id)
                /\ sess[reg.addedAs[id]].closed)

====
